---- MODULE Spec2Model ----
(***************************************************************************)
(* Model of the minecraft-mappings composition engine                      *)
(* (libs/engine/src/computer.rs, libs/engine/src/target.rs) over the       *)
(* mappings algebra of srglib and the source-cache facade                  *)
(* (libs/core/src/cache.rs), and of the source caches behind the facade    *)
(* (libs/core/src/mcp.rs, libs/core/src/spigot.rs) under concurrent loads. *)
(* Spec is the engine serving compute_target calls; CacheSpec is a set of  *)
(* threads calling the loads of one MinecraftMappingsCache.                *)
(*                                                                         *)
(* A Mappings value is a record of three insertion-ordered tables (the     *)
(* IndexMaps of the frozen value), each a sequence of <<key, value>>       *)
(* pairs with unique keys:                                                 *)
(*   classes : <<original class, renamed class>>                           *)
(*   fields  : <<[cls, name], renamed name>>                               *)
(*   methods : <<[cls, name, sig], renamed name>>                          *)
(* The builder stores member *names* only (set_field_name(FieldData,       *)
(* String), computer.rs:65,70); the renamed declaring class and signature  *)
(* of a member are derived from the class table.  A method signature is    *)
(* the sequence of the class names that occur in its descriptor.           *)
(***************************************************************************)
EXTENDS Integers, Sequences, FiniteSets, TLC

VARIABLES
    srg_source,        \* what load_srg_mappings(minecraft_version) yields (obf -> srg)
    spigot_source,     \* chained_mappings of load_spigot_mappings (obf -> spigot)
    mcp_source,        \* the McpMappings dictionary of load_mcp_mappings
    available,         \* what the upstream of each source gives a load
    mcp_version,       \* MappingsTargetComputer.mcp_version: "none" or a version
    computed_targets,  \* MappingsTargetComputer.computed_targets (the memo)
    calls,             \* number of compute_target calls made on this engine
    batch,             \* number of compute_target calls this engine serves
    last,              \* outcome of the latest top-level compute_target call
    returned,          \* history: what each target returned when it first succeeded
    published,         \* per memo, the snapshot object its ArcCell points to
    heap,              \* the snapshot objects (IndexMap / LruCache behind an Arc)
    lock,              \* per cache mutex, the thread that holds it (0: free)
    disk,              \* state of the on-disk files of each memo and key
    threads,           \* per thread, its position in a load call and its locals
    io,                \* history per memo and key: fetches, writes, publications
    started,           \* number of load calls started
    git,               \* class and member mappings of the BuildData commit
    spigot_files,      \* class.srg, members.srg, chained.srg: existence and lines
    spigot_entry,      \* the SpigotMappings published for the version, if any
    lru_cache,         \* an LruCache, its latest insert call and its history
    target_text,       \* a TargetMapping, its Display text and the text parsed
    version_text,      \* a MinecraftVersion, its Display text and the text parsed
    mcp_spec_text,     \* an McpVersionSpec, its Display text, URL and the text parsed
    algebra            \* Mappings operands and the results of invert and chain

engineVars == <<srg_source, spigot_source, mcp_source, available, mcp_version,
                computed_targets, calls, batch, last, returned>>

cacheVars == <<published, heap, lock, disk, threads, io, started>>

spigotVars == <<git, spigot_files, spigot_entry>>

lruVars == <<lru_cache>>

targetVars == <<target_text>>

versionVars == <<version_text, mcp_spec_text>>

algebraVars == <<algebra>>

libVars == <<spigotVars, lruVars, targetVars, versionVars, algebraVars>>

vars == <<srg_source, spigot_source, mcp_source, available, mcp_version,
          computed_targets, calls, batch, last, returned,
          published, heap, lock, disk, threads, io, started,
          git, spigot_files, spigot_entry, lru_cache, target_text,
          version_text, mcp_spec_text, algebra>>

(***************************************************************************)
(* Mappings algebra (srglib: SimpleMappings / FrozenMappings).             *)
(***************************************************************************)
EmptyMappings == [classes |-> <<>>, fields |-> <<>>, methods |-> <<>>]

\* IndexMap::contains_key on a table
Contains(tbl, k) == \E i \in DOMAIN tbl : tbl[i][1] = k

\* IndexMap::get on a table (k must be present)
Get(tbl, k) == tbl[CHOOSE i \in DOMAIN tbl : tbl[i][1] = k][2]

\* Builder write: a duplicate key is replaced, the last write wins and takes
\* the position of the last write.
Put(tbl, k, v) ==
    LET Other(e) == e[1] # k
    IN  Append(SelectSeq(tbl, Other), <<k, v>>)

\* Mappings::get_remapped_class: is the class renamed by the table?
HasClass(m, c) == Contains(m.classes, c)

\* Mappings::remap_class: the renamed class, the class itself when absent
RemapClass(m, c) == IF HasClass(m, c) THEN Get(m.classes, c) ELSE c

\* MethodSignature::transform_class: every class of the descriptor remapped
TransformSig(m, sig) == [i \in DOMAIN sig |-> RemapClass(m, sig[i])]

\* Mappings::get_remapped_field / get_remapped_method: presence of an entry
HasField(m, f) == Contains(m.fields, f)
HasMethod(m, md) == Contains(m.methods, md)

\* The renamed FieldData of an entry <<f, name>> of m.fields
RenamedField(m, e) == [cls |-> RemapClass(m, e[1].cls), name |-> e[2]]

\* The renamed MethodData of an entry <<md, name>> of m.methods
RenamedMethod(m, e) ==
    [cls |-> RemapClass(m, e[1].cls), name |-> e[2],
     sig |-> TransformSig(m, e[1].sig)]

\* Mappings::fields(): the (original, renamed) pairs in table order
Fields(m) == [i \in DOMAIN m.fields |-> <<m.fields[i][1], RenamedField(m, m.fields[i])>>]

\* Mappings::methods(): the (original, renamed) pairs in table order
Methods(m) == [i \in DOMAIN m.methods |-> <<m.methods[i][1], RenamedMethod(m, m.methods[i])>>]

\* builder.set_field_name / set_method_name / set_class_name
SetClassName(b, orig, renamed) == [b EXCEPT !.classes = Put(@, orig, renamed)]
SetFieldName(b, orig, name) == [b EXCEPT !.fields = Put(@, orig, name)]
SetMethodName(b, orig, name) == [b EXCEPT !.methods = Put(@, orig, name)]

\* Mutant of Chain: the class table of A is kept as it is
Chain_ClassesOfFirst(a, b) ==
    [classes |-> a.classes,
     fields  |-> [i \in DOMAIN a.fields |->
                    LET r == RenamedField(a, a.fields[i])
                    IN  <<a.fields[i][1],
                          IF HasField(b, r) THEN Get(b.fields, r) ELSE r.name>>],
     methods |-> [i \in DOMAIN a.methods |->
                    LET r == RenamedMethod(a, a.methods[i])
                    IN  <<a.methods[i][1],
                          IF HasMethod(b, r) THEN Get(b.methods, r) ELSE r.name>>]]

\* A.chain(B): originals of A, renamed through B where B has an entry for
\* A's renamed side, A's renaming kept otherwise.
Chain(a, b) ==
    [classes |-> [i \in DOMAIN a.classes |->
                    <<a.classes[i][1], RemapClass(b, a.classes[i][2])>>],
     fields  |-> [i \in DOMAIN a.fields |->
                    LET r == RenamedField(a, a.fields[i])
                    IN  <<a.fields[i][1],
                          IF HasField(b, r) THEN Get(b.fields, r) ELSE r.name>>],
     methods |-> [i \in DOMAIN a.methods |->
                    LET r == RenamedMethod(a, a.methods[i])
                    IN  <<a.methods[i][1],
                          IF HasMethod(b, r) THEN Get(b.methods, r) ELSE r.name>>]]

\* Are the renamed sides of every table unique (is inverted() defined)?
Injective(m) ==
    /\ \A i, j \in DOMAIN m.classes : m.classes[i][2] = m.classes[j][2] => i = j
    /\ \A i, j \in DOMAIN m.fields :
          RenamedField(m, m.fields[i]) = RenamedField(m, m.fields[j]) => i = j
    /\ \A i, j \in DOMAIN m.methods :
          RenamedMethod(m, m.methods[i]) = RenamedMethod(m, m.methods[j]) => i = j

\* Mutant of Inverted: an entry whose two sides are the same is left out
Inverted_DropUnrenamed(m) ==
    LET Renamed(e) == e[1] # e[2]
        RenamedMember(e) == e[1].name # e[2]
    IN  [classes |-> [i \in DOMAIN SelectSeq(m.classes, Renamed) |->
                        <<SelectSeq(m.classes, Renamed)[i][2],
                          SelectSeq(m.classes, Renamed)[i][1]>>],
         fields  |-> [i \in DOMAIN SelectSeq(m.fields, RenamedMember) |->
                        <<RenamedField(m, SelectSeq(m.fields, RenamedMember)[i]),
                          SelectSeq(m.fields, RenamedMember)[i][1].name>>],
         methods |-> [i \in DOMAIN m.methods |->
                        <<RenamedMethod(m, m.methods[i]), m.methods[i][1].name>>]]

\* m.inverted(): every table flipped, in the same order
Inverted(m) ==
    [classes |-> [i \in DOMAIN m.classes |-> <<m.classes[i][2], m.classes[i][1]>>],
     fields  |-> [i \in DOMAIN m.fields |->
                    <<RenamedField(m, m.fields[i]), m.fields[i][1].name>>],
     methods |-> [i \in DOMAIN m.methods |->
                    <<RenamedMethod(m, m.methods[i]), m.methods[i][1].name>>]]


\* The originals of a table (Mappings::original_classes and the like)
Originals(tbl) == {tbl[i][1] : i \in DOMAIN tbl}

\* rebuild().retain_classes / retain_fields / retain_methods: keep is the set
\* of the originals the predicate accepts; kept entries keep their order
RetainClasses(m, keep) ==
    LET Test(e) == e[1] \in keep IN [m EXCEPT !.classes = SelectSeq(@, Test)]
RetainFields(m, keep) ==
    LET Test(e) == e[1] \in keep IN [m EXCEPT !.fields = SelectSeq(@, Test)]
RetainMethods(m, keep) ==
    LET Test(e) == e[1] \in keep IN [m EXCEPT !.methods = SelectSeq(@, Test)]

\* rebuild().clear_classes / clear_fields / clear_methods
ClearClasses(m) == [m EXCEPT !.classes = <<>>]
ClearFields(m) == [m EXCEPT !.fields = <<>>]
ClearMethods(m) == [m EXCEPT !.methods = <<>>]

(***************************************************************************)
(* Targets (libs/engine/src/target.rs).                                    *)
(***************************************************************************)
MappingSystem == {"srg", "mcp", "spigot", "obf"}

\* Option<TargetFilter>
Filters == {"none", "classes", "members"}

\* TargetFlags::default()
DefaultFlags == [filter |-> "none", only_obf |-> FALSE]

\* Every TargetFlags value (at most one filter)
TargetFlags == [filter : Filters, only_obf : BOOLEAN]

\* TargetFlags::is_default
IsDefault(flags) == flags = DefaultFlags

\* TargetMapping::new / MappingSystem::create_target
NewTarget(original, renamed) ==
    [original |-> original, renamed |-> renamed, flags |-> DefaultFlags]

\* TargetMapping::reversed
Reversed(t) == [original |-> t.renamed, renamed |-> t.original, flags |-> t.flags]

\* TargetMapping::with_default_flags
WithDefaultFlags(t) == [t EXCEPT !.flags = DefaultFlags]

\* MappingSystem::is_mcp
IsMcp(system) == system \in {"srg", "mcp"}

\* TargetMapping::needs_mcp_version
NeedsMcpVersion(t) == IsMcp(t.original) \/ IsMcp(t.renamed)

\* Every TargetMapping value
TargetMapping == [original : MappingSystem, renamed : MappingSystem, flags : TargetFlags]

\* A string of the program is the sequence of its characters
Text(system) ==
    CASE system = "srg" -> <<"s", "r", "g">>
      [] system = "mcp" -> <<"m", "c", "p">>
      [] system = "spigot" -> <<"s", "p", "i", "g", "o", "t">>
      [] system = "obf" -> <<"o", "b", "f">>
      [] system = "classes" -> <<"c", "l", "a", "s", "s", "e", "s">>
      [] system = "members" -> <<"m", "e", "m", "b", "e", "r", "s">>
      [] system = "onlyobf" -> <<"o", "n", "l", "y", "o", "b", "f">>

\* MappingSystem::id
Id(system) == Text(system)

\* MappingSystem::from_id ("invalid" is None)
FromId(id) ==
    IF \E system \in MappingSystem : Id(system) = id
      THEN CHOOSE system \in MappingSystem : Id(system) = id
      ELSE "invalid"

\* str::find(char): the index of the first occurrence, 0 when there is none
Find(s, ch) ==
    IF \E i \in 1..Len(s) : s[i] = ch
      THEN CHOOSE i \in 1..Len(s) : s[i] = ch /\ \A j \in 1..(i - 1) : s[j] # ch
      ELSE 0

\* str::split(char): the pieces between the occurrences, empty ones included
RECURSIVE Split(_, _)
Split(s, ch) ==
    LET at == Find(s, ch)
    IN  IF at = 0 THEN <<s>>
        ELSE <<SubSeq(s, 1, at - 1)>> \o Split(SubSeq(s, at + 1, Len(s)), ch)

\* Mutant of FlagsFmt: onlyobf is written before the filter
FlagsFmt_OnlyObfFirst(flags) ==
    LET only == IF flags.only_obf THEN Text("onlyobf") ELSE <<>>
        dash == IF flags.only_obf /\ flags.filter # "none" THEN <<"-">> ELSE <<>>
        filter == IF flags.filter = "none" THEN <<>> ELSE Text(flags.filter)
    IN  only \o dash \o filter

\* Display for TargetFlags
FlagsFmt(flags) ==
    LET filter == IF flags.filter = "none" THEN <<>> ELSE Text(flags.filter)
        dash == IF flags.only_obf /\ flags.filter # "none" THEN <<"-">> ELSE <<>>
        only == IF flags.only_obf THEN Text("onlyobf") ELSE <<>>
    IN  filter \o dash \o only

\* Display for TargetMapping
TargetFmt(t) ==
    LET flags == FlagsFmt(t.flags)
    IN  Id(t.original) \o <<"2">> \o Id(t.renamed)
          \o (IF flags # <<>> THEN <<"-">> \o flags ELSE <<>>)

\* A TargetFlags::new that has not run
NoFlags == [done |-> FALSE, panicked |-> FALSE, flags |-> DefaultFlags]

\* Mutant of FlagsNew: classes wins when both filters are asked for
FlagsNew_ClassesWins(classes, members, only_obf) ==
    [done |-> TRUE, panicked |-> FALSE,
     flags |-> [filter |-> IF classes THEN "classes"
                           ELSE IF members THEN "members" ELSE "none",
                only_obf |-> only_obf]]

\* TargetFlags::new: (true, true) panics
FlagsNew(classes, members, only_obf) ==
    IF classes /\ members
      THEN [NoFlags EXCEPT !.done = TRUE, !.panicked = TRUE]
      ELSE [done |-> TRUE, panicked |-> FALSE,
            flags |-> [filter |-> IF classes THEN "classes"
                                  ELSE IF members THEN "members" ELSE "none",
                       only_obf |-> only_obf]]

\* Mutant of FlagsFromPieces: a flag met again, or a second filter, replaces
\* what was read before instead of being refused
RECURSIVE FlagsFromPieces_LastWins(_, _, _)
FlagsFromPieces_LastWins(pieces, i, result) ==
    IF ~result.ok \/ i > Len(pieces) THEN result
    ELSE LET flag == pieces[i]
             step ==
               CASE flag = Text("classes") -> [result EXCEPT !.flags.filter = "classes"]
                 [] flag = Text("members") -> [result EXCEPT !.flags.filter = "members"]
                 [] flag = Text("onlyobf") -> [result EXCEPT !.flags.only_obf = TRUE]
                 [] OTHER -> [ok |-> FALSE, flags |-> result.flags]
         IN  FlagsFromPieces_LastWins(pieces, i + 1, step)

\* The loop of TargetFlags::from_str over the flags from the i-th on;
\* result is [ok, flags]
RECURSIVE FlagsFromPieces(_, _, _)
FlagsFromPieces(pieces, i, result) ==
    IF ~result.ok \/ i > Len(pieces) THEN result
    ELSE LET flag == pieces[i]
             flags == result.flags
             invalid == [ok |-> FALSE, flags |-> flags]
             step ==
               CASE flag = Text("classes") ->
                      IF flags.filter # "none" THEN invalid
                      ELSE [result EXCEPT !.flags.filter = "classes"]
                 [] flag = Text("members") ->
                      IF flags.filter # "none" THEN invalid
                      ELSE [result EXCEPT !.flags.filter = "members"]
                 [] flag = Text("onlyobf") ->
                      IF flags.only_obf THEN invalid
                      ELSE [result EXCEPT !.flags.only_obf = TRUE]
                 [] OTHER -> invalid
         IN  FlagsFromPieces(pieces, i + 1, step)

\* TargetFlags::from_str
FlagsFromStr(s) ==
    IF s = <<>> THEN [ok |-> TRUE, flags |-> DefaultFlags]
    ELSE FlagsFromPieces(Split(s, "-"), 1, [ok |-> TRUE, flags |-> DefaultFlags])

\* A parse that has not run
NoParse == [done |-> FALSE, ok |-> FALSE, err |-> "none", target |-> NewTarget("obf", "srg")]

\* Err(InvalidTarget::Target(s)) / Err(InvalidTarget::Flags(s))
InvalidTarget(kind) == [NoParse EXCEPT !.done = TRUE, !.err = kind]

\* TargetMapping::from_str
TargetFromStr(s) ==
    LET first_dash == Find(s, "-")
        first == IF first_dash = 0 THEN s ELSE SubSeq(s, 1, first_dash - 1)
        mapping_separator == Find(first, "2")
        original == FromId(SubSeq(first, 1, mapping_separator - 1))
        renamed == FromId(SubSeq(first, mapping_separator + 1, Len(first)))
        flags == IF first_dash = 0 THEN [ok |-> TRUE, flags |-> DefaultFlags]
                 ELSE FlagsFromStr(SubSeq(s, first_dash + 1, Len(s)))
    IN  IF mapping_separator = 0 \/ original = "invalid" \/ renamed = "invalid"
          THEN InvalidTarget("Target")
        ELSE IF ~flags.ok THEN InvalidTarget("Flags")
        ELSE [done |-> TRUE, ok |-> TRUE, err |-> "none",
              target |-> [original |-> original, renamed |-> renamed,
                          flags |-> flags.flags]]

\* The basic targets of computer.rs
OBF2SRG == NewTarget("obf", "srg")
OBF2SPIGOT == NewTarget("obf", "spigot")
SRG2MCP == NewTarget("srg", "mcp")
SRG2OBF == Reversed(OBF2SRG)
OBF2MCP == NewTarget("obf", "mcp")
MCP2OBF == Reversed(OBF2MCP)
SPIGOT2OBF == Reversed(OBF2SPIGOT)

(***************************************************************************)
(* The engine (libs/engine/src/computer.rs).                               *)
(*                                                                         *)
(* compute_target is evaluated on an engine record st:                     *)
(*   memo    : computed_targets, the IndexMap from the targets computed so *)
(*             far to their Mappings: a table of <<target, Mappings>>      *)
(*   loads   : the facade loads performed, in order                        *)
(*   requested : the targets compute_target was called with, in order      *)
(*   depth   : the largest number of nested compute_target activations     *)
(*   reentry : did a compute_target start for a key already in progress    *)
(* and yields an outcome [kind, val, err, st]: kind is "ok" (val is the    *)
(* Mappings), "err" (err is the error) or "panic".  An error is            *)
(* [targets, cause]: the targets of the nested TargetComputeErrors from    *)
(* the outermost to the innermost, and the root cause.                     *)
(***************************************************************************)
NoError == [targets |-> <<>>, cause |-> "none"]

Ok(val, st) == [kind |-> "ok", val |-> val, err |-> NoError, st |-> st]

Err(cause, st) ==
    [kind |-> "err", val |-> EmptyMappings,
     err |-> [targets |-> <<>>, cause |-> cause], st |-> st]

\* Mutant of Panic: the Redundant arm returns an error value
Panic_AsError(st) ==
    [kind |-> "err", val |-> EmptyMappings,
     err |-> [targets |-> <<>>, cause |-> "Redundant"], st |-> st]

Panic(st) == [kind |-> "panic", val |-> EmptyMappings, err |-> NoError, st |-> st]

\* Unbounded recursion of compute_target: the thread's stack overflows
Overflow(st) == [kind |-> "overflow", val |-> EmptyMappings, err |-> NoError, st |-> st]

\* Mutant of TargetComputeError: an error that is already a
\* TargetComputeError is passed on without being wrapped again
TargetComputeError_Passthrough(target, r) ==
    IF r.err.targets # <<>> THEN r
    ELSE [r EXCEPT !.err = [targets |-> <<target>>, cause |-> r.err.cause]]

\* TargetComputeError { target, cause }
TargetComputeError(target, r) ==
    [r EXCEPT !.err = [targets |-> <<target>> \o r.err.targets, cause |-> r.err.cause]]

\* Mutant of MemoInsert: nothing is stored
MemoInsert_Skip(memo, target, mappings) == memo

\* Mutant of MemoInsert: the new entry replaces the whole memo
MemoInsert_Replace(memo, target, mappings) == <<<<target, mappings>>>>

\* Mutant of MemoInsert: the entry is stored under the target without flags
MemoInsert_Unflagged(memo, target, mappings) ==
    IF Contains(memo, WithDefaultFlags(target))
      THEN [i \in DOMAIN memo |->
              IF memo[i][1] = WithDefaultFlags(target)
                THEN <<memo[i][1], mappings>> ELSE memo[i]]
      ELSE Append(memo, <<WithDefaultFlags(target), mappings>>)

\* computed_targets.insert(target, mappings): IndexMap::insert replaces the
\* value of a present key in place and appends an absent key
MemoInsert(memo, target, mappings) ==
    IF Contains(memo, target)
      THEN [i \in DOMAIN memo |->
              IF memo[i][1] = target THEN <<target, mappings>> ELSE memo[i]]
      ELSE Append(memo, <<target, mappings>>)

\* const MAXIMUM_CACHE_SIZE
MAXIMUM_CACHE_SIZE == 32

\* Mutant of LruCleanup: nothing is removed and nothing asserted
LruCleanup_NoEviction(map, capacity) == [panic |-> FALSE, map |-> map]

\* LruCache::cleanup: [panic, map]
LruCleanup(map, capacity) ==
    IF Len(map) < capacity THEN [panic |-> TRUE, map |-> map]
    ELSE LET needed_removed == Len(map) - capacity
             retained == SubSeq(map, 1, needed_removed)
         IN  [panic |-> Len(retained) > capacity, map |-> retained]

\* Mutant of LruInsert: a present key moves to the end
LruInsert_MoveToEnd(map, key, value, capacity) ==
    IF Contains(map, key)
      THEN [panic |-> FALSE, map |-> Put(map, key, value)]
      ELSE LruCleanup(Append(map, <<key, value>>), capacity)

\* LruCache::insert: [panic, map]
LruInsert(map, key, value, capacity) ==
    IF Contains(map, key)
      THEN [panic |-> FALSE,
            map |-> [i \in DOMAIN map |->
                       IF map[i][1] = key THEN <<key, value>> ELSE map[i]]]
      ELSE LruCleanup(Append(map, <<key, value>>), capacity)

\* Mutant of McpVersionOf: a missing version is not an error
McpVersionOf_Ignored(st) == Ok(EmptyMappings, st)

\* MappingsTargetComputer::mcp_version
McpVersionOf(st) ==
    IF mcp_version = "none" THEN Err("Unspecified MCP version", st)
                            ELSE Ok(EmptyMappings, st)

\* MinecraftMappingsCache::load_srg_mappings as the engine sees it
LoadSrgMappings(st) ==
    LET st2 == [st EXCEPT !.loads = Append(@, "srg")]
    IN  IF available["srg"] = "ok" THEN Ok(srg_source, st2)
                                   ELSE Err("srg load failed", st2)

\* MinecraftMappingsCache::load_spigot_mappings(..).chained_mappings.  Over
\* a BuildData commit where info.json or a mappings path is a directory,
\* load_from_commit panics.
LoadSpigotMappings(st) ==
    LET st2 == [st EXCEPT !.loads = Append(@, "spigot")]
    IN  CASE available["spigot"] = "ok" -> Ok(spigot_source, st2)
          [] available["spigot"] = "tree" -> Panic(st2)
          [] OTHER -> Err("spigot load failed", st2)

\* MinecraftMappingsCache::load_mcp_mappings; the dictionary is mcp_source.
\* The memo of the MCP cache is empty (no insert into it ever returned), so
\* a load whose files were fetched and parsed ends in LruCache::insert on a
\* clone of the empty cache.
LoadMcpMappings(st) ==
    LET st2 == [st EXCEPT !.loads = Append(@, "mcp")]
        lru == LruInsert(<<>>, mcp_version, "full", MAXIMUM_CACHE_SIZE)
    IN  CASE available["mcp"] # "ok" -> Err("mcp load failed", st2)
          [] lru.panic -> Panic(st2)
          [] OTHER -> Ok(EmptyMappings, st2)

\* The two loops of the (srg, mcp) arm: every renamed (SRG) member of
\* obf2srg whose name is in the dictionary is set to the dictionary's name
RECURSIVE RenameFields_KeepMissing(_, _, _)
\* Mutant of RenameFields: a member missing from the dictionary is set too,
\* under its SRG name
RenameFields_KeepMissing(pairs, dict, builder) ==
    IF pairs = <<>> THEN builder
    ELSE LET serage == Head(pairs)[2]
         IN  RenameFields_KeepMissing(Tail(pairs), dict,
                 SetFieldName(builder, serage,
                     IF Contains(dict, serage.name) THEN Get(dict, serage.name)
                                                    ELSE serage.name))

RECURSIVE RenameFields(_, _, _)
RenameFields(pairs, dict, builder) ==
    IF pairs = <<>> THEN builder
    ELSE LET serage == Head(pairs)[2]
         IN  RenameFields(Tail(pairs), dict,
                 IF Contains(dict, serage.name)
                   THEN SetFieldName(builder, serage, Get(dict, serage.name))
                   ELSE builder)

RECURSIVE RenameMethods(_, _, _)
RenameMethods(pairs, dict, builder) ==
    IF pairs = <<>> THEN builder
    ELSE LET serage == Head(pairs)[2]
         IN  RenameMethods(Tail(pairs), dict,
                 IF Contains(dict, serage.name)
                   THEN SetMethodName(builder, serage, Get(dict, serage.name))
                   ELSE builder)

\* The builder of the (srg, mcp) arm, frozen
Srg2Mcp(obf2srg, mcp_mappings) ==
    RenameMethods(Methods(obf2srg), mcp_mappings.methods,
        RenameFields(Fields(obf2srg), mcp_mappings.fields, EmptyMappings))

\* The arms that invert another target: the target inverted
InvertOperand(pair) ==
    CASE pair = <<"srg", "obf">> -> OBF2SRG
      [] pair = <<"mcp", "srg">> -> SRG2MCP
      [] pair = <<"mcp", "obf">> -> OBF2MCP
      [] pair = <<"spigot", "obf">> -> OBF2SPIGOT

IsInvertArm(pair) ==
    pair \in {<<"srg", "obf">>, <<"mcp", "srg">>, <<"mcp", "obf">>, <<"spigot", "obf">>}

\* Mutant of ChainOperands: (srg, spigot) is routed through mcp
ChainOperands_ThroughMcp(pair) ==
    CASE pair = <<"srg", "spigot">> -> <<NewTarget("mcp", "spigot"), SRG2MCP>>
      [] pair = <<"mcp", "spigot">> -> <<MCP2OBF, OBF2SPIGOT>>
      [] pair = <<"spigot", "srg">> -> <<SPIGOT2OBF, OBF2SRG>>
      [] pair = <<"spigot", "mcp">> -> <<SPIGOT2OBF, OBF2MCP>>
      [] pair = <<"obf", "mcp">> -> <<OBF2SRG, SRG2MCP>>

\* Mutant of ChainOperands: the operands of (spigot, srg) are swapped
ChainOperands_Swapped(pair) ==
    CASE pair = <<"srg", "spigot">> -> <<SRG2OBF, SRG2OBF>>
      [] pair = <<"mcp", "spigot">> -> <<MCP2OBF, OBF2SPIGOT>>
      [] pair = <<"spigot", "srg">> -> <<OBF2SRG, SPIGOT2OBF>>
      [] pair = <<"spigot", "mcp">> -> <<SPIGOT2OBF, OBF2MCP>>
      [] pair = <<"obf", "mcp">> -> <<OBF2SRG, SRG2MCP>>

\* The arms that chain two targets: the two targets computed, in order
ChainOperands(pair) ==
    CASE pair = <<"srg", "spigot">> -> <<SRG2OBF, SRG2OBF>>
      [] pair = <<"mcp", "spigot">> -> <<MCP2OBF, OBF2SPIGOT>>
      [] pair = <<"spigot", "srg">> -> <<SPIGOT2OBF, OBF2SRG>>
      [] pair = <<"spigot", "mcp">> -> <<SPIGOT2OBF, OBF2MCP>>
      [] pair = <<"obf", "mcp">> -> <<OBF2SRG, SRG2MCP>>

IsChainArm(pair) ==
    pair \in {<<"srg", "spigot">>, <<"mcp", "spigot">>, <<"spigot", "srg">>,
              <<"spigot", "mcp">>, <<"obf", "mcp">>}

\* The retain predicates of apply_flags for onlyobf
KeepClass(original2obf, original) ==
    IF HasClass(original2obf, original)
      THEN original = Get(original2obf.classes, original)
      ELSE TRUE

\* Mutant of KeepField: the whole member is compared, not only its name
KeepField_WholeMember(original2obf, original) ==
    IF HasField(original2obf, original)
      THEN original = [cls |-> RemapClass(original2obf, original.cls),
                       name |-> Get(original2obf.fields, original)]
      ELSE TRUE

KeepField(original2obf, original) ==
    IF HasField(original2obf, original)
      THEN original.name = Get(original2obf.fields, original)
      ELSE TRUE

KeepMethod(original2obf, original) ==
    IF HasMethod(original2obf, original)
      THEN original.name = Get(original2obf.methods, original)
      ELSE TRUE

\* The onlyobf rebuild of apply_flags
RetainObfuscated(mappings, original2obf) ==
    LET classes == {c \in Originals(mappings.classes) : KeepClass(original2obf, c)}
        fields == {f \in Originals(mappings.fields) : KeepField(original2obf, f)}
        methods == {md \in Originals(mappings.methods) : KeepMethod(original2obf, md)}
    IN  RetainMethods(RetainFields(RetainClasses(mappings, classes), fields), methods)

\* Mutant of ApplyFilter: the classes filter forgets to clear the fields
ApplyFilter_KeepsFields(filter, mappings) ==
    CASE filter = "none" -> mappings
      [] filter = "classes" -> ClearMethods(mappings)
      [] filter = "members" -> ClearClasses(mappings)

\* The filter match of apply_flags
ApplyFilter(filter, mappings) ==
    CASE filter = "none" -> mappings
      [] filter = "classes" -> ClearMethods(ClearFields(mappings))
      [] filter = "members" -> ClearClasses(mappings)

RECURSIVE ComputeTarget(_, _, _)
RECURSIVE FallbackComputeTarget(_, _, _)
RECURSIVE BaseMappings(_, _, _)
RECURSIVE ApplyFlags(_, _, _, _)

\* compute_target: stack is the sequence of the targets whose compute_target
\* is in progress.  The code has no protection against cycles: a call for a
\* target that is in progress would recurse without end (stack overflow).
ComputeTarget(target, st, stack) ==
    LET st1 == [st EXCEPT !.depth = IF Len(stack) + 1 > @ THEN Len(stack) + 1 ELSE @,
                          !.requested = Append(@, target)]
    IN  IF Contains(st1.memo, target)
          THEN Ok(Get(st1.memo, target), st1)
          ELSE LET st2 == [st1 EXCEPT !.reentry =
                              @ \/ \E i \in DOMAIN stack : stack[i] = target]
               IN  IF \E i \in DOMAIN stack : stack[i] = target
                     THEN Overflow(st2)
                     ELSE LET r == FallbackComputeTarget(target, st2,
                                                         Append(stack, target))
                          IN  CASE r.kind = "ok" ->
                                     [r EXCEPT !.st.memo = MemoInsert(@, target, r.val)]
                                [] r.kind = "err" -> TargetComputeError(target, r)
                                [] OTHER -> r

\* fallback_compute_target: the match, then apply_flags
FallbackComputeTarget(target, st, stack) ==
    LET base == BaseMappings(target, st, stack)
    IN  IF base.kind # "ok" THEN base
        ELSE ApplyFlags(target, base.val, base.st, stack)

\* The match of fallback_compute_target
BaseMappings(target, st, stack) ==
    LET pair == <<target.original, target.renamed>>
    IN  CASE pair = <<"srg", "mcp">> ->
               LET obf2srg == ComputeTarget(OBF2SRG, st, stack)
               IN  IF obf2srg.kind # "ok" THEN obf2srg
                   ELSE LET version == McpVersionOf(obf2srg.st)
                        IN  IF version.kind # "ok" THEN version
                            ELSE LET loaded == LoadMcpMappings(version.st)
                                 IN  IF loaded.kind # "ok" THEN loaded
                                     ELSE Ok(Srg2Mcp(obf2srg.val, mcp_source), loaded.st)
          [] IsChainArm(pair) ->
               LET first == ComputeTarget(ChainOperands(pair)[1], st, stack)
               IN  IF first.kind # "ok" THEN first
                   ELSE LET second == ComputeTarget(ChainOperands(pair)[2], first.st, stack)
                        IN  IF second.kind # "ok" THEN second
                            ELSE Ok(Chain(first.val, second.val), second.st)
          [] IsInvertArm(pair) ->
               LET operand == ComputeTarget(InvertOperand(pair), st, stack)
               IN  IF operand.kind # "ok" THEN operand
                   ELSE Ok(Inverted(operand.val), operand.st)
          [] pair = <<"obf", "srg">> -> LoadSrgMappings(st)
          [] pair = <<"obf", "spigot">> -> LoadSpigotMappings(st)
          [] OTHER -> Panic(st)

\* Mutant of ApplyFlags: no special case for an obfuscated original
ApplyFlags_NoObfCase(target, mappings, st, stack) ==
    IF IsDefault(target.flags) THEN Ok(mappings, st)
    ELSE LET restricted ==
               IF target.flags.only_obf
                 THEN LET original2obf ==
                            ComputeTarget(NewTarget(target.original, "obf"), st, stack)
                      IN  IF original2obf.kind # "ok" THEN original2obf
                          ELSE Ok(RetainObfuscated(mappings, original2obf.val),
                                  original2obf.st)
                 ELSE Ok(mappings, st)
         IN  IF restricted.kind # "ok" THEN restricted
             ELSE Ok(ApplyFilter(target.flags.filter, restricted.val), restricted.st)

\* Mutant of ApplyFlags: the helper target of onlyobf keeps the flags of the
\* requested target
ApplyFlags_FlaggedHelper(target, mappings, st, stack) ==
    IF IsDefault(target.flags) THEN Ok(mappings, st)
    ELSE LET restricted ==
               IF target.flags.only_obf /\ target.original # "obf"
                 THEN LET original2obf ==
                            ComputeTarget([target EXCEPT !.renamed = "obf"], st, stack)
                      IN  IF original2obf.kind # "ok" THEN original2obf
                          ELSE Ok(RetainObfuscated(mappings, original2obf.val),
                                  original2obf.st)
                 ELSE Ok(mappings, st)
         IN  IF restricted.kind # "ok" THEN restricted
             ELSE Ok(ApplyFilter(target.flags.filter, restricted.val), restricted.st)

\* apply_flags
ApplyFlags(target, mappings, st, stack) ==
    IF IsDefault(target.flags) THEN Ok(mappings, st)
    ELSE LET restricted ==
               IF target.flags.only_obf /\ target.original # "obf"
                 THEN LET original2obf ==
                            ComputeTarget(NewTarget(target.original, "obf"), st, stack)
                      IN  IF original2obf.kind # "ok" THEN original2obf
                          ELSE Ok(RetainObfuscated(mappings, original2obf.val),
                                  original2obf.st)
                 ELSE Ok(mappings, st)
         IN  IF restricted.kind # "ok" THEN restricted
             ELSE Ok(ApplyFilter(target.flags.filter, restricted.val), restricted.st)

\* The engine record at the start of a top-level call on an engine whose
\* memo is memo (empty after MappingsTargetComputer::new)
NewEngine(memo) ==
    [memo |-> memo, loads |-> <<>>, requested |-> <<>>, depth |-> 0, reentry |-> FALSE]

\* The empty IndexMap of computed_targets
EmptyMemo == <<>>

(***************************************************************************)
(* The source caches (libs/core/src/mcp.rs, libs/core/src/spigot.rs).      *)
(*                                                                         *)
(* McpVersionCache owns two memos, srg_mapping_versions ("srg", keyed by   *)
(* MinecraftVersion) and loaded_versions ("mcp", an LruCache keyed by      *)
(* McpVersion), and one mutex for both; SpigotMappingsCache owns the memo  *)
(* versions ("spigot", keyed by MinecraftVersion) and its own mutex.  Each *)
(* memo is an ArcCell: a pointer to an immutable snapshot object.  The     *)
(* snapshot objects live in heap; a memo table is a sequence of            *)
(* <<key, value>> pairs in insertion order.                                *)
(*                                                                         *)
(* The files of a memo and key are "absent" (the existence test of the     *)
(* load fails), "partial" (every file exists, one is not fully written) or *)
(* "complete".  "info" is the version-info JSON of the Spigot cache.       *)
(***************************************************************************)
Memos == {"srg", "mcp", "spigot"}

\* McpVersionCache.lock and SpigotMappingsCache.lock
Locks == {"mcp", "spigot"}

\* The mutex a load of the memo takes
LockOf(memo) == IF memo = "spigot" THEN "spigot" ELSE "mcp"

\* The MinecraftVersions asked for: one before and one from
\* CONFIG_SYSTEM_FIRST_VERSION on
GameVersions == {"1.12.2", "1.13"}

\* The McpVersions asked for, and those of McpVersionList (versions.json)
AskedMcpVersions == {"snapshot_20180808", "stable_39"}
VersionList == {"snapshot_20180808"}

\* The keys of a memo
KeysOf(memo) == IF memo = "mcp" THEN AskedMcpVersions ELSE GameVersions

\* The file groups on disk: one per memo and key, and the version info
DiskKeys ==
    {<<m, k>> : m \in {"srg", "spigot", "info"}, k \in GameVersions}
        \cup {<<"mcp", k>> : k \in AskedMcpVersions}

FileStates == {"absent", "partial", "complete"}

\* The largest number of threads and of load calls started
NumThreads == 2
MaxLoads == 3

Threads == 1..NumThreads

\* What parsing the files yields
ParsedValue(state) == IF state = "complete" THEN "full" ELSE "truncated"

\* IndexMap::insert on the private clone of a snapshot
IndexMapInsert(map, key, value) ==
    IF Contains(map, key)
      THEN [i \in DOMAIN map |->
              IF map[i][1] = key THEN <<key, value>> ELSE map[i]]
      ELSE Append(map, <<key, value>>)

\* The result of a load call: kind is "none" (no call returned yet), "ok",
\* "err" or "panic"; fast: returned by the lock-free path; contended: the
\* mutex of the cache was held by another thread when the fast path
\* returned; rechecked: found under the mutex by the re-check
NoResult ==
    [kind |-> "none", val |-> "none", cause |-> "none",
     fast |-> FALSE, contended |-> FALSE, rechecked |-> FALSE]

\* A thread outside any load call.  In a call: memo and key are the
\* arguments, snap the snapshot object the thread holds (0: none), seen the
\* table it read from snap when it took it, private its clone of the
\* snapshot, val the value it parsed, present whether the key was published
\* when the call began, response the HTTP response to the version-info
\* download of the call ("none": no such download).
IdleThread ==
    [pc |-> "idle", memo |-> "srg", key |-> "1.12.2", snap |-> 0, seen |-> <<>>,
     private |-> <<>>, val |-> "none", present |-> FALSE, res |-> NoResult,
     response |-> "none"]

\* The positions between acquiring the mutex and releasing it
SlowPath ==
    {"recheck", "info", "fetch", "create", "write", "parse", "publish", "return"}

NoIo == [fetches |-> 0, writes |-> 0, publishes |-> 0, failed |-> FALSE, vals |-> {}]

\* After MinecraftMappingsCache::setup: empty memos, free mutexes; files is
\* the state of every file group (an empty or a warm cache directory)
CacheSetup(files) ==
    /\ heap = << <<>>, <<>>, <<>> >>
    /\ published = [m \in Memos |-> CASE m = "srg" -> 1 [] m = "mcp" -> 2 [] OTHER -> 3]
    /\ lock = [l \in Locks |-> 0]
    /\ disk = [d \in DiskKeys |-> files]
    /\ threads = [t \in Threads |-> IdleThread]
    /\ io = [d \in DiskKeys |-> NoIo]
    /\ started = 0

\* Mutant of FastPathHit: the lock-free path never finds the key
FastPathHit_Never(table, key) == FALSE

\* self.<memo>.get().get(&version) of load_srg_mappings / load_mappings
FastPathHit(table, key) == Contains(table, key)

\* Mutant of RecheckHit: no re-check under the mutex
RecheckHit_Never(table, key) == FALSE

\* The re-check of the snapshot under the mutex
RecheckHit(table, key) == Contains(table, key)

\* Mutant of LockFree: lock() never waits
LockFree_Always(l) == TRUE

\* self.lock.lock() returns once the mutex is free
LockFree(l) == lock[l] = 0

\* Mutant of Release: the guard is never dropped
Release_Never(l) == lock

\* Drop of the MutexGuard _guard (on return, on ? and on unwinding)
Release(l) == [lock EXCEPT ![l] = 0]

\* Mutant of PublishSnapshot: the published object is updated in place
PublishSnapshot_InPlace(memo, table) ==
    [heap |-> [heap EXCEPT ![published[memo]] = table], published |-> published]

\* ArcCell::set(Arc::new(table)): a new object replaces the pointer
PublishSnapshot(memo, table) ==
    [heap |-> Append(heap, table),
     published |-> [published EXCEPT ![memo] = Len(heap) + 1]]

OkResult(val, fast, contended, rechecked) ==
    [kind |-> "ok", val |-> val, cause |-> "none",
     fast |-> fast, contended |-> contended, rechecked |-> rechecked]

ErrResult(cause) == [NoResult EXCEPT !.kind = "err", !.cause = cause]

\* The thread record after its load call returned res
Returned(th, res) ==
    [th EXCEPT !.pc = "idle", !.snap = 0, !.seen = <<>>, !.private = <<>>,
               !.val = "none", !.res = res]

\* The group of files the load of thread t works on
FilesOf(t) == <<threads[t].memo, threads[t].key>>

\* An error return (?) from the slow path of thread t: the guard is dropped,
\* nothing is published
Fail(t, cause) ==
    /\ threads' = [threads EXCEPT ![t] = Returned(@, ErrResult(cause))]
    /\ lock' = Release(LockOf(threads[t].memo))
    /\ io' = [io EXCEPT ![FilesOf(t)].failed = TRUE]
    /\ UNCHANGED <<heap, published>>

\* A panic in the slow path of thread t: the call does not return, the
\* unwinding drops the guard, nothing is published
Unwind(t) ==
    /\ threads' = [threads EXCEPT ![t] =
          [Returned(@, [NoResult EXCEPT !.kind = "panic"]) EXCEPT !.pc = "dead"]]
    /\ lock' = Release(LockOf(threads[t].memo))
    /\ UNCHANGED <<heap, published, io>>

\* Mutant of FindVersion: every version asked for is found
FindVersion_Always(version) == TRUE

\* McpVersionList::find_version(version).is_some()
FindVersion(version) == version \in VersionList

\* A load call begins: the ArcCell::get() of the lock-free path
Begin(t, memo, key) ==
    /\ threads[t].pc = "idle"
    /\ started < MaxLoads
    /\ started' = started + 1
    /\ threads' = [threads EXCEPT ![t] =
          [IdleThread EXCEPT !.pc = "lookup", !.memo = memo, !.key = key,
                             !.snap = published[memo],
                             !.seen = heap[published[memo]],
                             !.present = Contains(heap[published[memo]], key)]]
    /\ UNCHANGED <<published, heap, lock, disk, io>>
    /\ UNCHANGED engineVars
    /\ UNCHANGED libVars

\* The lookup in the snapshot taken: a hit returns; a miss enters the
\* fallback (load_mappings_fallback of the MCP memo starts with
\* find_version, before the mutex)
Lookup(t) ==
    LET th == threads[t]
        table == heap[th.snap]
    IN  /\ th.pc = "lookup"
        /\ IF FastPathHit(table, th.key)
             THEN /\ threads' = [threads EXCEPT ![t] =
                        Returned(@, OkResult(Get(table, th.key), TRUE,
                                             lock[LockOf(th.memo)] # 0, FALSE))]
                  /\ io' = [io EXCEPT ![FilesOf(t)].vals = @ \cup {Get(table, th.key)}]
             ELSE /\ threads' = [threads EXCEPT ![t] =
                        IF th.memo = "mcp" /\ ~FindVersion(th.key)
                          THEN Returned(@, ErrResult("UnknownMcpVersion"))
                          ELSE [@ EXCEPT !.pc = "fallback", !.snap = 0, !.seen = <<>>]]
                  /\ io' = io
        /\ UNCHANGED <<published, heap, lock, disk, started>>
        /\ UNCHANGED engineVars
    /\ UNCHANGED libVars
        /\ UNCHANGED libVars

\* let _guard = self.lock.lock(); let versions = self.<memo>.get();
Acquire(t) ==
    LET th == threads[t]
    IN  /\ th.pc = "fallback"
        /\ LockFree(LockOf(th.memo))
        /\ lock' = [lock EXCEPT ![LockOf(th.memo)] = t]
        /\ threads' = [threads EXCEPT ![t] =
              [@ EXCEPT !.pc = "recheck", !.snap = published[th.memo],
                        !.seen = heap[published[th.memo]]]]
        /\ UNCHANGED <<published, heap, disk, io, started>>
        /\ UNCHANGED engineVars
    /\ UNCHANGED libVars
        /\ UNCHANGED libVars

\* The re-check under the mutex.  On a miss the SRG load clones the
\* snapshot and drops it, the MCP load drops it, the Spigot load keeps it
\* while it loads the version info.
Recheck(t) ==
    LET th == threads[t]
        table == heap[th.snap]
    IN  /\ th.pc = "recheck"
        /\ IF RecheckHit(table, th.key)
             THEN /\ threads' = [threads EXCEPT ![t] =
                        Returned(@, OkResult(Get(table, th.key), FALSE, FALSE, TRUE))]
                  /\ lock' = Release(LockOf(th.memo))
                  /\ io' = [io EXCEPT ![FilesOf(t)].vals = @ \cup {Get(table, th.key)}]
             ELSE /\ threads' = [threads EXCEPT ![t] =
                        CASE th.memo = "srg" ->
                               [@ EXCEPT !.pc = "fetch", !.private = table,
                                         !.snap = 0, !.seen = <<>>]
                          [] th.memo = "mcp" ->
                               [@ EXCEPT !.pc = "fetch", !.snap = 0, !.seen = <<>>]
                          [] OTHER -> [@ EXCEPT !.pc = "info"]]
                  /\ UNCHANGED <<lock, io>>
        /\ UNCHANGED <<published, heap, disk, started>>
        /\ UNCHANGED engineVars
    /\ UNCHANGED libVars
        /\ UNCHANGED libVars

\* The HTTP responses a download meets
DownloadResponses == {"200", "404", "500"}

\* utils::download: 404 is HttpNotFound, any other failure the error of curl
Download(response) ==
    CASE response = "404" -> "HttpNotFound"
      [] response = "200" -> "ok"
      [] OTHER -> "curl::Error"

\* Mutant of VersionInfoError: every download failure is an unknown version
VersionInfoError_AllUnknown(e) == "UnknownMinecraftVersion"

\* The match on the download error in load_version_info
VersionInfoError(e) == IF e = "HttpNotFound" THEN "UnknownMinecraftVersion" ELSE e

\* SpigotMappingsCache::load_version_info, then the clone of the snapshot.
\* A present file is parsed (a torn one is not valid JSON); an absent one is
\* downloaded, created and written.  "error" is a failure of create_dir_all,
\* File::create, File::open or the JSON parser.
VersionInfo(t) ==
    LET th == threads[t]
        file == <<"info", th.key>>
        proceed(r) == [th EXCEPT !.pc = "fetch", !.private = heap[th.snap],
                                 !.snap = 0, !.seen = <<>>, !.response = r]
    IN  /\ th.pc = "info"
        /\ \/ /\ disk[file] = "absent"
              /\ \E response \in DownloadResponses : \E outcome \in {"ok", "torn"} :
                    IF Download(response) # "ok"
                      THEN /\ outcome = "ok"
                           /\ disk' = disk
                           /\ threads' = [threads EXCEPT ![t] =
                                 [Returned(@, ErrResult(VersionInfoError(Download(response))))
                                     EXCEPT !.response = response]]
                           /\ lock' = Release(LockOf(th.memo))
                           /\ io' = [io EXCEPT ![FilesOf(t)].failed = TRUE]
                           /\ UNCHANGED <<heap, published>>
                      ELSE IF outcome = "torn"
                        THEN /\ disk' = [disk EXCEPT ![file] = "partial"]
                             /\ threads' = [threads EXCEPT ![t] =
                                   [Returned(@, ErrResult("version info write"))
                                       EXCEPT !.response = response]]
                             /\ lock' = Release(LockOf(th.memo))
                             /\ io' = [io EXCEPT ![FilesOf(t)].failed = TRUE]
                             /\ UNCHANGED <<heap, published>>
                        ELSE /\ disk' = [disk EXCEPT ![file] = "complete"]
                             /\ threads' = [threads EXCEPT ![t] = proceed(response)]
                             /\ UNCHANGED <<published, heap, lock, io>>
           \/ /\ disk[file] = "complete"
              /\ disk' = disk
              /\ threads' = [threads EXCEPT ![t] = proceed("none")]
              /\ UNCHANGED <<published, heap, lock, io>>
           \/ /\ disk' = disk
              /\ Fail(t, "version info")
        /\ UNCHANGED started
        /\ UNCHANGED engineVars
    /\ UNCHANGED libVars
        /\ UNCHANGED libVars

\* The existence test and what precedes the creation of the files: the
\* directory (created before the test by the MCP and the Spigot load), the
\* download or git fetch, the archive entry or the commit.  Reading
\* info.json or a mappings path of the BuildData commit panics in
\* load_from_commit when the path is a directory of the commit.
Fetch(t) ==
    LET th == threads[t]
    IN  /\ th.pc = "fetch"
        /\ \E outcome \in {"ok", "error", "panic"} :
              CASE outcome = "error" ->
                     /\ disk[FilesOf(t)] = "absent" \/ th.memo # "srg"
                     /\ Fail(t, "fetch")
                [] outcome = "panic" ->
                     /\ th.memo = "spigot"
                     /\ disk[FilesOf(t)] = "absent"
                     /\ Unwind(t)
                [] OTHER ->
                     /\ threads' = [threads EXCEPT ![t].pc =
                           IF disk[FilesOf(t)] = "absent" THEN "create" ELSE "parse"]
                     /\ io' = [io EXCEPT ![FilesOf(t)].fetches =
                           IF disk[FilesOf(t)] = "absent" THEN @ + 1 ELSE @]
                     /\ UNCHANGED <<published, heap, lock>>
        /\ UNCHANGED <<disk, started>>
        /\ UNCHANGED engineVars
    /\ UNCHANGED libVars
        /\ UNCHANGED libVars

\* File::create of the files of the group
Create(t) ==
    LET th == threads[t]
    IN  /\ th.pc = "create"
        /\ \E outcome \in {"ok", "error"} :
              IF outcome = "error"
                THEN /\ disk' = disk
                     /\ Fail(t, "create")
                ELSE /\ disk' = [disk EXCEPT ![FilesOf(t)] = "partial"]
                     /\ threads' = [threads EXCEPT ![t].pc = "write"]
                     /\ UNCHANGED <<published, heap, lock, io>>
        /\ UNCHANGED started
        /\ UNCHANGED engineVars
    /\ UNCHANGED libVars
        /\ UNCHANGED libVars

\* copy / SrgMappingsFormat::write into the created files.  The Spigot load
\* creates and writes its three files one after the other: a failure at one
\* of them leaves the later ones missing, so that the existence test of the
\* next load fails again.
Write(t) ==
    LET th == threads[t]
    IN  /\ th.pc = "write"
        /\ \E outcome \in {"ok", "error", "error before the last file"} :
              IF outcome # "ok"
                THEN /\ outcome = "error before the last file" => th.memo = "spigot"
                     /\ disk' = IF outcome = "error"
                                  THEN disk
                                  ELSE [disk EXCEPT ![FilesOf(t)] = "absent"]
                     /\ Fail(t, "write")
                ELSE /\ disk' = [disk EXCEPT ![FilesOf(t)] = "complete"]
                     /\ threads' = [threads EXCEPT ![t].pc = "parse"]
                     /\ io' = [io EXCEPT ![FilesOf(t)].writes = @ + 1]
                     /\ UNCHANGED <<published, heap, lock>>
        /\ UNCHANGED started
        /\ UNCHANGED engineVars
    /\ UNCHANGED libVars
        /\ UNCHANGED libVars

\* File::open and parse of the files on disk, whatever wrote them
Parse(t) ==
    LET th == threads[t]
    IN  /\ th.pc = "parse"
        /\ \E outcome \in {"ok", "error"} :
              IF outcome = "error"
                THEN Fail(t, "parse")
                ELSE /\ threads' = [threads EXCEPT ![t] =
                           [@ EXCEPT !.pc = "publish",
                                     !.val = ParsedValue(disk[FilesOf(t)])]]
                     /\ UNCHANGED <<published, heap, lock, io>>
        /\ UNCHANGED <<disk, started>>
        /\ UNCHANGED engineVars
    /\ UNCHANGED libVars
        /\ UNCHANGED libVars

\* insert into the clone and ArcCell::set.  The SRG and the Spigot load
\* insert into the clone taken earlier; the MCP load clones the published
\* LruCache now and inserts with LruCache::insert, whose assertion panics
\* (the guard is dropped by the unwinding).  After set the new snapshot is
\* what every ArcCell::get reads, while the caller still holds the mutex.
Publish(t) ==
    LET th == threads[t]
        lru == LruInsert(heap[published["mcp"]], th.key, th.val, MAXIMUM_CACHE_SIZE)
        table == IF th.memo = "mcp" THEN lru.map
                 ELSE IndexMapInsert(th.private, th.key, th.val)
        next == PublishSnapshot(th.memo, table)
    IN  /\ th.pc = "publish"
        /\ IF th.memo = "mcp" /\ lru.panic
             THEN Unwind(t)
             ELSE /\ threads' = [threads EXCEPT ![t] =
                        [@ EXCEPT !.pc = "return", !.private = <<>>]]
                  /\ heap' = next.heap
                  /\ published' = next.published
                  /\ io' = [io EXCEPT ![FilesOf(t)].publishes = @ + 1]
                  /\ lock' = lock
        /\ UNCHANGED <<disk, started>>
        /\ UNCHANGED engineVars
        /\ UNCHANGED libVars

\* Ok(mappings) after the set: the call returns and the guard is dropped
ReturnOk(t) ==
    LET th == threads[t]
    IN  /\ th.pc = "return"
        /\ threads' = [threads EXCEPT ![t] =
              Returned(@, OkResult(th.val, FALSE, FALSE, FALSE))]
        /\ lock' = Release(LockOf(th.memo))
        /\ io' = [io EXCEPT ![FilesOf(t)].vals = @ \cup {th.val}]
        /\ UNCHANGED <<published, heap, disk, started>>
        /\ UNCHANGED engineVars
        /\ UNCHANGED libVars

(***************************************************************************)
(* The data the facade can serve.  Obfuscated classes a and b, fields a.f  *)
(* and b.g, method a.m(b).  Every source is injective, as the upstream     *)
(* data are, so that inverted() is defined.                                *)
(***************************************************************************)
FieldData(cls, name) == [cls |-> cls, name |-> name]
MethodData(cls, name, sig) == [cls |-> cls, name |-> name, sig |-> sig]

(***************************************************************************)
(* LruCache (src/utils.rs), as a value and its insert.                     *)
(***************************************************************************)
\* The largest capacity, the keys and values inserted, the longest sequence
\* of insert calls on one cache
MaxCapacity == 2
LruKeys == {"k1", "k2", "k3"}
LruValues == {"v", "w"}
MaxInserts == 3

\* The tables an LruCache of the capacity can hold by the invariant of its
\* type: distinct keys, at most capacity entries
RECURSIVE LruTables(_)
LruTables(n) ==
    IF n = 0 THEN {<<>>}
    ELSE LET shorter == LruTables(n - 1)
         IN  shorter \cup
               {Append(t, <<k, v>>) :
                   t \in {u \in shorter : Len(u) = n - 1},
                   k \in LruKeys, v \in LruValues}

DistinctKeys(table) ==
    \A i, j \in DOMAIN table : table[i][1] = table[j][1] => i = j

\* The keys of a table in its order
KeySeq(table) == [i \in DOMAIN table |-> table[i][1]]

\* The Option<V> that LruCache::insert returns ("None": no previous value)
LruInsertOld(map, key) == IF Contains(map, key) THEN Get(map, key) ELSE "None"

\* A cache of the capacity holding the table, before any insert call of the
\* history
LruCacheOf(capacity, table) ==
    [capacity |-> capacity, start |-> table, map |-> table, panicked |-> FALSE,
     log |-> <<>>, before |-> table, key |-> "None", value |-> "None",
     old |-> "None"]

\* cache.insert(key, value); a panic ends the use of the cache
LruCacheInsert(key, value) ==
    LET r == LruInsert(lru_cache.map, key, value, lru_cache.capacity)
    IN  /\ ~lru_cache.panicked
        /\ Len(lru_cache.log) < MaxInserts
        /\ lru_cache' = [lru_cache EXCEPT !.map = r.map, !.panicked = r.panic,
                              !.log = Append(@, key), !.before = lru_cache.map,
                              !.key = key, !.value = value,
                              !.old = LruInsertOld(lru_cache.map, key)]
        /\ UNCHANGED engineVars
        /\ UNCHANGED cacheVars
        /\ UNCHANGED <<spigotVars, targetVars, versionVars, algebraVars>>

\* No LruCache under study: LruCache::new(MAXIMUM_CACHE_SIZE)
LruIdle == lru_cache = LruCacheOf(MAXIMUM_CACHE_SIZE, <<>>)

(***************************************************************************)
(* The content of a Spigot entry (libs/core/src/spigot.rs:55-80).          *)
(*                                                                         *)
(* Here a class name is a record [pkg, name] and an SRG file is the        *)
(* sequence of its lines; a line is <<"CL", original, renamed>>,           *)
(* <<"FD", original FieldData, renamed FieldData>> or                      *)
(* <<"MD", original MethodData, renamed MethodData>>.                      *)
(***************************************************************************)
ClassName(pkg, name) == [pkg |-> pkg, name |-> name]

\* fn transform_spigot_packages, as a function on the package texts: "None"
\* stands for Option::None
transform_spigot_packages ==
    [s \in STRING |-> IF s = "" THEN "net/minecraft/server" ELSE "None"]

\* Mappings::transform_packages: the renamed side of each class entry gets
\* the package the function gives for its package, if it gives one
TransformPackages(m, fn) ==
    [m EXCEPT !.classes =
        [i \in DOMAIN m.classes |->
            LET renamed == m.classes[i][2]
            IN  <<m.classes[i][1],
                  IF fn[renamed.pkg] = "None" THEN renamed
                  ELSE ClassName(fn[renamed.pkg], renamed.name)>>]]

\* SrgMappingsFormat::write: the CL lines, the FD lines, the MD lines
SrgWrite(m) ==
    [i \in DOMAIN m.classes |-> <<"CL", m.classes[i][1], m.classes[i][2]>>]
        \o [i \in DOMAIN m.fields |-> <<"FD", Fields(m)[i][1], Fields(m)[i][2]>>]
        \o [i \in DOMAIN m.methods |-> <<"MD", Methods(m)[i][1], Methods(m)[i][2]>>]

\* SrgMappingsFormat::parse_stream: each line sets one name of the builder
RECURSIVE SrgParseInto(_, _)
SrgParseInto(lines, b) ==
    IF lines = <<>> THEN b
    ELSE LET l == Head(lines)
         IN  SrgParseInto(Tail(lines),
                CASE l[1] = "CL" -> SetClassName(b, l[2], l[3])
                  [] l[1] = "FD" -> SetFieldName(b, l[2], l[3].name)
                  [] OTHER -> SetMethodName(b, l[2], l[3].name))

SrgParse(lines) == SrgParseInto(lines, EmptyMappings)

\* The three files of a version, in the order the load writes them
SpigotFiles == <<"class.srg", "members.srg", "chained.srg">>

\* chained of spigot.rs:67-68
SpigotChained(class_mappings, member_mappings) ==
    TransformPackages(Chain(class_mappings, member_mappings),
                      transform_spigot_packages)

\* What spigot.rs:69-71 writes into each file
SpigotFileContent(class_mappings, member_mappings) ==
    [f \in {"class.srg", "members.srg", "chained.srg"} |->
        CASE f = "class.srg" -> SrgWrite(class_mappings)
          [] f = "members.srg" -> SrgWrite(member_mappings)
          [] OTHER -> SrgWrite(SpigotChained(class_mappings, member_mappings))]

\* The class mappings and member mappings a BuildData commit can hold
GitClassMappings ==
    { [EmptyMappings EXCEPT !.classes = cs] :
        cs \in { << <<ClassName("", "a"), ClassName("", "Block")>> >>,
                 << <<ClassName("", "a"), ClassName("", "Block")>>,
                    <<ClassName("", "b"), ClassName("net/minecraft/server", "MinecraftServer")>> >>,
                 << <<ClassName("", "b"), ClassName("com/mojang", "Auth")>>,
                    <<ClassName("", "a"), ClassName("", "Item")>> >>,
                 << <<ClassName("", "a"), ClassName("", "Item")>>,
                    <<ClassName("", "b"), ClassName("", "Block")>>,
                    <<ClassName("com/mojang", "c"), ClassName("com/mojang", "Auth")>> >> } }

GitMemberMappings ==
    { [EmptyMappings EXCEPT
          !.fields = << <<FieldData(ClassName("", "Block"), "c"), "name">> >>],
      [EmptyMappings EXCEPT
          !.fields = << <<FieldData(ClassName("", "Block"), "c"), "name">>,
                        <<FieldData(ClassName("", "Item"), "d"), "count">> >>,
          !.methods = << <<MethodData(ClassName("", "Block"), "e",
                                      <<ClassName("", "Item")>>), "getItem">> >>],
      [EmptyMappings EXCEPT
          !.methods = << <<MethodData(ClassName("", "Item"), "f",
                                      <<ClassName("", "Block")>>), "getBlock">>,
                         <<MethodData(ClassName("", "Item"), "g", <<>>), "size">> >>] }

\* The text of a class name in an SRG line: package/name
ClassText(c) == IF c.pkg = "" THEN c.name ELSE c.pkg \o "/" \o c.name

\* The position of the last "/" among the first i characters, 0 if none
RECURSIVE LastSlash(_, _)
LastSlash(text, i) ==
    IF i = 0 THEN 0
    ELSE IF SubSeq(text, i, i) = "/" THEN i ELSE LastSlash(text, i - 1)

\* The class name a text is read as: what follows the last "/" is the name
ClassOfText(text) ==
    LET i == LastSlash(text, Len(text))
    IN  IF i = 0 THEN ClassName("", text)
        ELSE ClassName(SubSeq(text, 1, i - 1), SubSeq(text, i + 1, Len(text)))

\* The last token of a CL line (the renamed class) and of an FD line (the
\* renamed class / the renamed name); an MD line ends with a descriptor
LineText(line) ==
    CASE line[1] = "CL" -> ClassText(line[3])
      [] line[1] = "FD" -> ClassText(line[3].cls) \o "/" \o line[3].name
      [] OTHER -> ""

\* A write that stops inside a line after keep characters of its last token
\* leaves a line the parser reads: a CL line whose renamed class has a name,
\* an FD line whose renamed member has a class and a name
CutParses(line, keep) ==
    /\ line[1] \in {"CL", "FD"}
    /\ keep >= 1
    /\ keep < Len(LineText(line))
    /\ LastSlash(LineText(line), keep) < keep
    /\ line[1] = "FD" => LastSlash(LineText(line), keep) > 0

\* The line the parser reads from such a cut line
CutLine(line, keep) ==
    LET text == SubSeq(LineText(line), 1, keep)
        i == LastSlash(text, keep)
    IN  IF line[1] = "CL" THEN <<"CL", line[2], ClassOfText(text)>>
        ELSE <<"FD", line[2],
               FieldData(ClassOfText(SubSeq(text, 1, i - 1)), SubSeq(text, i + 1, keep))>>

\* Where a write can stop inside a line: -1 where no parser reads the rest
\* of the line, 0 at the end of a line, otherwise after that many characters
\* of the last token (the longest token of the data has 36 characters)
CutPoints == -1 .. 35

\* The steps of the load at which it can return an error: none; before any
\* file is created (git, create_dir_all); File::create of the n-th file;
\* while writing the n-th file, after `done` of its lines and `keep`
\* characters of the next; while opening or parsing the files
SpigotFailures ==
    {[at |-> a, file |-> 0, done |-> 0, keep |-> 0] : a \in {"none", "git", "parse"}}
        \cup {[at |-> "create", file |-> n, done |-> 0, keep |-> 0] : n \in 1..3}
        \cup {[at |-> "write", file |-> n, done |-> k, keep |-> c] :
                 n \in 1..3, k \in 0..2, c \in CutPoints}

\* A file that does not exist, and a file that holds lines.  The tail of a
\* file whose write stopped inside a line: the last of its lines is a cut
\* line the parser reads ("cut"), or a rest no parser reads follows its
\* lines ("torn").
NoFile == [exists |-> FALSE, lines |-> <<>>, tail |-> "none"]
FileOf(lines) == [exists |-> TRUE, lines |-> lines, tail |-> "none"]
FileCutAt(lines, keep) ==
    CASE keep = 0 -> FileOf(lines)
      [] keep = -1 -> [exists |-> TRUE, lines |-> SubSeq(lines, 1, Len(lines) - 1),
                       tail |-> "torn"]
      [] OTHER -> [exists |-> TRUE,
                   lines |-> SubSeq(lines, 1, Len(lines) - 1)
                                \o <<CutLine(lines[Len(lines)], keep)>>,
                   tail |-> "cut"]

\* No SpigotMappings published for the version
NoSpigotEntry ==
    [loaded |-> FALSE, class_mappings |-> EmptyMappings,
     member_mappings |-> EmptyMappings, chained_mappings |-> EmptyMappings]

\* SpigotMappingsCache::load_mappings for the version, from the memo lookup
\* to the publication, with the failure the environment causes.  File::create
\* empties a file that exists; a file whose File::create was not reached
\* stays as it was.
SpigotLoadMappings(failure) ==
    LET content == SpigotFileContent(git.class, git.member)
        missing == \E f \in DOMAIN spigot_files : ~spigot_files[f].exists
        written == [f \in DOMAIN spigot_files |->
                      LET n == CHOOSE i \in 1..3 : SpigotFiles[i] = f
                      IN  CASE failure.at \notin {"create", "write"} -> FileOf(content[f])
                            [] n < failure.file -> FileOf(content[f])
                            [] n = failure.file /\ failure.at = "write" ->
                                 IF failure.keep = 0
                                   THEN FileOf(SubSeq(content[f], 1, failure.done))
                                   ELSE FileCutAt(SubSeq(content[f], 1, failure.done + 1),
                                                  failure.keep)
                            [] OTHER -> spigot_files[f]]
        files == IF missing /\ failure.at # "git" THEN written ELSE spigot_files
        entry == [loaded |-> TRUE,
                  class_mappings |-> SrgParse(files["class.srg"].lines),
                  member_mappings |-> SrgParse(files["members.srg"].lines),
                  chained_mappings |-> SrgParse(files["chained.srg"].lines)]
    IN  /\ ~spigot_entry.loaded
        /\ failure.at = "write" =>
              /\ missing
              /\ failure.done < Len(content[SpigotFiles[failure.file]])
              /\ failure.keep >= 1 =>
                    CutParses(content[SpigotFiles[failure.file]][failure.done + 1],
                              failure.keep)
        /\ failure.at \in {"git", "create"} => missing
        /\ failure.at = "none" => \A f \in DOMAIN files : files[f].tail # "torn"
        /\ spigot_files' = files
        /\ spigot_entry' = IF failure.at = "none" THEN entry ELSE NoSpigotEntry
        /\ UNCHANGED git
        /\ UNCHANGED engineVars
        /\ UNCHANGED cacheVars
        /\ UNCHANGED <<lruVars, targetVars, versionVars, algebraVars>>

\* The process ends and a new one starts over the same cache directory; the
\* BuildData commit of the version is the same
SpigotRestart ==
    /\ spigot_entry.loaded
    /\ spigot_entry' = NoSpigotEntry
    /\ UNCHANGED <<git, spigot_files>>
    /\ UNCHANGED engineVars
    /\ UNCHANGED cacheVars
    /\ UNCHANGED <<lruVars, targetVars, versionVars, algebraVars>>

\* No Spigot content is being loaded
SpigotIdle ==
    /\ git = [class |-> EmptyMappings, member |-> EmptyMappings]
    /\ spigot_files = [f \in {"class.srg", "members.srg", "chained.srg"} |-> NoFile]
    /\ spigot_entry = NoSpigotEntry


(***************************************************************************)
(* Version strings (libs/core/src/version.rs, libs/core/src/mcp.rs).  A   *)
(* text is the sequence of its characters; a number is written and read   *)
(* in decimal as u32 does.                                                 *)
(***************************************************************************)
\* A u32 is kept as two 16-bit halves <<high, low>>: its value is
\* high * 2^16 + low
Half == 65536

\* The u32 of a number below 2^31
U32(n) == <<n \div Half, n % Half>>

\* u32::MAX
U32Max == <<Half - 1, Half - 1>>

Digits == <<"0", "1", "2", "3", "4", "5", "6", "7", "8", "9">>

\* The value of a decimal digit, -1 for any other character
DigitValue(ch) ==
    IF \E d \in 1..10 : Digits[d] = ch
      THEN (CHOOSE d \in 1..10 : Digits[d] = ch) - 1
      ELSE -1

\* n / 10 and n % 10 of a u32
DivTen(n) ==
    LET rest == (n[1] % 10) * Half + n[2]
    IN  [quotient |-> <<n[1] \div 10, rest \div 10>>, remainder |-> rest % 10]

\* n.checked_mul(10).and_then(|n| n.checked_add(digit)): [ok, value]
MulTenAdd(n, digit) ==
    LET low == n[2] * 10 + digit
        high == n[1] * 10 + (low \div Half)
    IN  IF high >= Half THEN [ok |-> FALSE, value |-> U32(0)]
        ELSE [ok |-> TRUE, value |-> <<high, low % Half>>]

\* Display for u32
RECURSIVE Decimal(_)
Decimal(n) ==
    IF n[1] = 0 /\ n[2] < 10 THEN <<Digits[n[2] + 1]>>
    ELSE Decimal(DivTen(n).quotient) \o <<Digits[DivTen(n).remainder + 1]>>

\* The digits of u32::from_str from the i-th on: each must be a decimal
\* digit and the value must stay within u32
RECURSIVE ParseDigits(_, _, _)
ParseDigits(s, i, value) ==
    IF i > Len(s) THEN [ok |-> TRUE, value |-> value]
    ELSE IF DigitValue(s[i]) < 0 \/ ~MulTenAdd(value, DigitValue(s[i])).ok
           THEN [ok |-> FALSE, value |-> U32(0)]
    ELSE ParseDigits(s, i + 1, MulTenAdd(value, DigitValue(s[i])).value)

\* Mutant of ParseU32: the text is read without its last character
ParseU32_DropLast(s) ==
    IF Len(s) < 2 THEN ParseDigits(s, 1, U32(0))
    ELSE ParseDigits(SubSeq(s, 1, Len(s) - 1), 1, U32(0))

\* str::parse::<u32>(): an optional "+", then at least one digit
ParseU32(s) ==
    IF s = <<>> \/ s = <<"+">> \/ s = <<"-">> THEN [ok |-> FALSE, value |-> U32(0)]
    ELSE IF s[1] = "+" THEN ParseDigits(Tail(s), 1, U32(0))
    ELSE ParseDigits(s, 1, U32(0))

\* MinecraftVersion { major, minor, patch }
Version(major, minor, patch) == [major |-> major, minor |-> minor, patch |-> patch]

\* A parse of a MinecraftVersion that has not run
NoVersionParse == [done |-> FALSE, ok |-> FALSE, version |-> Version(U32(0), U32(0), U32(0))]

\* Err(InvalidMinecraftVersion(s))
InvalidMinecraftVersion == [NoVersionParse EXCEPT !.done = TRUE]

\* Mutant of VersionFmt: the patch is always written
VersionFmt_AlwaysPatch(v) ==
    Decimal(v.major) \o <<".">> \o Decimal(v.minor) \o <<".">> \o Decimal(v.patch)

\* Display for MinecraftVersion
VersionFmt(v) ==
    Decimal(v.major) \o <<".">> \o Decimal(v.minor)
      \o (IF v.patch # U32(0) THEN <<".">> \o Decimal(v.patch) ELSE <<>>)

\* MinecraftVersion::from_str
VersionFromStr(s) ==
    LET parts == Split(s, ".")
        major == ParseU32(parts[1])
        minor == IF Len(parts) >= 2 THEN ParseU32(parts[2]) ELSE [ok |-> FALSE, value |-> U32(0)]
        patch == IF Len(parts) >= 3 THEN ParseU32(parts[3]) ELSE [ok |-> TRUE, value |-> U32(0)]
    IN  IF ~major.ok \/ ~minor.ok \/ ~patch.ok \/ Len(parts) > 3
          THEN InvalidMinecraftVersion
          ELSE [done |-> TRUE, ok |-> TRUE,
                version |-> Version(major.value, minor.value, patch.value)]

\* No MinecraftVersion text under study
VersionIdle ==
    version_text = [has_version |-> FALSE, version |-> Version(U32(0), U32(0), U32(0)),
                    formatted |-> FALSE, text |-> <<>>, input |-> <<>>,
                    parsed |-> NoVersionParse]

\* The string literals of mcp.rs, as characters
McpText(word) ==
    CASE word = "snapshot" -> <<"s", "n", "a", "p", "s", "h", "o", "t">>
      [] word = "stable" -> <<"s", "t", "a", "b", "l", "e">>
      [] word = "Stable" -> <<"S", "t", "a", "b", "l", "e">>
      [] word = "nodoc" -> <<"n", "o", "d", "o", "c">>
      [] word = "_nodoc" -> <<"_">> \o <<"n", "o", "d", "o", "c">>
      [] word = "mcp_" -> <<"m", "c", "p", "_">>
      [] word = "39" -> <<"3", "9">>
      [] word = "x" -> <<"x">>
      [] word = "" -> <<>>

McpChannel == {"Snapshot", "Stable"}

\* McpChannel::from_str ("invalid" is Err(InvalidMcpChannel))
ChannelFromStr(s) ==
    IF s = McpText("snapshot") THEN "Snapshot"
    ELSE IF s = McpText("stable") THEN "Stable"
    ELSE "invalid"

\* The lower-case name of a channel, the one from_str reads
ChannelFmt_LowerCase(channel) ==
    IF channel = "Snapshot" THEN McpText("snapshot") ELSE McpText("stable")

\* Display for McpChannel
ChannelFmt(channel) ==
    IF channel = "Snapshot" THEN McpText("snapshot") ELSE McpText("Stable")

\* McpVersionSpec::new
McpVersionSpec(value, channel, nodoc) ==
    [version |-> [value |-> value, channel |-> channel], nodoc |-> nodoc]

\* Display for McpVersionSpec
McpSpecFmt(spec) ==
    ChannelFmt(spec.version.channel)
      \o (IF spec.nodoc THEN McpText("_nodoc") ELSE <<>>)
      \o <<"_">> \o Decimal(spec.version.value)

\* A parse of an McpVersionSpec that has not run
NoMcpSpecParse ==
    [done |-> FALSE, ok |-> FALSE, spec |-> McpVersionSpec(U32(0), "Snapshot", FALSE)]

\* Err(InvalidMcpVersionSpec(s))
InvalidMcpVersionSpec == [NoMcpSpecParse EXCEPT !.done = TRUE]

\* McpVersionSpec::from_str: the channel, "nodoc" if it comes next, the
\* value; what follows the value is not looked at
McpSpecFromStr(s) ==
    LET iter == Split(s, "_")
        channel == ChannelFromStr(iter[1])
        nodoc == Len(iter) >= 2 /\ iter[2] = McpText("nodoc")
        at == IF nodoc THEN 3 ELSE 2
        value == IF Len(iter) >= at THEN ParseU32(iter[at])
                 ELSE [ok |-> FALSE, value |-> U32(0)]
    IN  IF channel = "invalid" \/ ~value.ok THEN InvalidMcpVersionSpec
        ELSE [done |-> TRUE, ok |-> TRUE,
              spec |-> McpVersionSpec(value.value, channel, nodoc)]

\* McpVersionInfo::download_zip_url: the fixed texts are one element each
DownloadZipUrl(info, nodoc) ==
    LET docspec == IF nodoc THEN McpText("_nodoc") ELSE <<>>
        name == McpText("mcp_") \o ChannelFmt(info.version.channel) \o docspec
        release == Decimal(info.version.value) \o <<"-">>
                     \o VersionFmt(info.minecraft_version)
    IN  <<"http://export.mcpbot.bspk.rs/">> \o name \o <<"/">> \o release
          \o <<"/">> \o name \o <<"-">> \o release \o <<".zip">>

\* The directory of a version: format!("{}", version.create_spec(true))
VersionDirectory(version) == McpSpecFmt(McpVersionSpec(version.value, version.channel, TRUE))

\* No McpVersionSpec text under study
McpSpecIdle ==
    mcp_spec_text = [has_spec |-> FALSE,
                     spec |-> McpVersionSpec(U32(0), "Snapshot", FALSE),
                     minecraft_version |-> Version(U32(0), U32(0), U32(0)),
                     formatted |-> FALSE, text |-> <<>>, input |-> <<>>,
                     parsed |-> NoMcpSpecParse, url |-> <<>>, directory |-> <<>>]

\* m.inverted() where the renamed sides are unique, an error otherwise
Invert(m) ==
    IF Injective(m) THEN [ok |-> TRUE, val |-> Inverted(m)]
    ELSE [ok |-> FALSE, val |-> EmptyMappings]

\* Operands on which nothing was computed
NoAlgebra ==
    [op |-> "none", a |-> EmptyMappings, b |-> EmptyMappings, c |-> EmptyMappings,
     once |-> [ok |-> FALSE, val |-> EmptyMappings],
     twice |-> [ok |-> FALSE, val |-> EmptyMappings],
     left |-> EmptyMappings, right |-> EmptyMappings, done |-> FALSE]

\* No Mappings operands under study
AlgebraIdle == algebra = NoAlgebra

\* No TargetMapping text under study
TargetIdle ==
    target_text = [target |-> NewTarget("obf", "srg"), formatted |-> FALSE,
                   text |-> <<>>, parsed |-> NoParse, input |-> <<>>,
                   built |-> NoFlags]

\* Nothing but the engine and the caches is in use
LibIdle == SpigotIdle /\ LruIdle /\ TargetIdle /\ VersionIdle /\ McpSpecIdle /\ AlgebraIdle

\* joined.srg contents (obf -> srg): complete; with members the SRG leaves
\* unrenamed; covering only class a
SrgSources ==
    { [classes |-> << <<"a", "net/A">>, <<"b", "net/B">> >>,
       fields  |-> << <<FieldData("a", "f"), "field_1">>,
                      <<FieldData("b", "g"), "field_2">> >>,
       methods |-> << <<MethodData("a", "m", <<"b">>), "func_1">> >>],
      [classes |-> << <<"a", "net/A">>, <<"b", "b">> >>,
       fields  |-> << <<FieldData("a", "f"), "field_1">>,
                      <<FieldData("b", "g"), "g">> >>,
       methods |-> << <<MethodData("a", "m", <<"b">>), "m">> >>],
      [classes |-> << <<"a", "net/A">> >>,
       fields  |-> << <<FieldData("a", "f"), "field_1">> >>,
       methods |-> << >>] }

\* Spigot chained mappings (obf -> spigot): most members still obfuscated
SpigotSources ==
    { [classes |-> << <<"b", "nms/B">>, <<"a", "nms/A">> >>,
       fields  |-> << <<FieldData("a", "f"), "pf">> >>,
       methods |-> << <<MethodData("a", "m", <<"b">>), "pm">> >>],
      [classes |-> << <<"a", "nms/A">>, <<"b", "b">> >>,
       fields  |-> << <<FieldData("a", "f"), "f">>,
                      <<FieldData("b", "g"), "pg">> >>,
       methods |-> << <<MethodData("a", "m", <<"b">>), "m">> >>],
      [classes |-> << <<"a", "nms/A">> >>,
       fields  |-> << >>,
       methods |-> << >>] }

\* MCP dictionaries (searge name -> name): with a name no SRG member has;
\* covering one field and the method; empty
McpSources ==
    { [fields  |-> << <<"field_9", "zeta">>, <<"field_2", "beta">>,
                      <<"field_1", "alpha">> >>,
       methods |-> << <<"func_1", "run">> >>],
      [fields  |-> << <<"field_1", "alpha">> >>,
       methods |-> << <<"func_1", "run">> >>],
      [fields  |-> << >>, methods |-> << >>] }

Sources == {"srg", "spigot", "mcp"}

\* What the upstream of a source gives a load: data the load can use
\* ("ok"), a failure the load returns as an error ("err") or, for the
\* BuildData repository, a commit where info.json or a mappings path is a
\* directory ("tree")
UpstreamOf(source) == IF source = "spigot" THEN {"ok", "err", "tree"} ELSE {"ok", "err"}

AllAvailable == [s \in Sources |-> "ok"]

\* At most one upstream source is not "ok"
Availabilities ==
    {a \in [Sources -> {"ok", "err", "tree"}] :
        /\ \A s \in Sources : a[s] \in UpstreamOf(s)
        /\ Cardinality({s \in Sources : a[s] # "ok"}) <= 1}

\* Option<McpVersion> of the engine
McpVersions == {"none", "snapshot_20180808"}

\* The reference data of the engines that serve several calls: the sources
\* with unrenamed members and the complete dictionary
ReferenceSrg ==
    CHOOSE m \in SrgSources : Contains(m.classes, "b") /\ Get(m.classes, "b") = "b"
ReferenceSpigot ==
    CHOOSE m \in SpigotSources : Contains(m.classes, "b") /\ Get(m.classes, "b") = "b"
ReferenceMcp == CHOOSE d \in McpSources : Contains(d.fields, "field_9")

\* The largest number of compute_target calls made on one engine
MaxCalls == 2

NoCall ==
    [target |-> OBF2SRG, kind |-> "none", val |-> EmptyMappings, err |-> NoError,
     loads |-> <<>>, requested |-> <<>>, depth |-> 0, reentry |-> FALSE,
     hit |-> FALSE, again |-> FALSE]

TypeOK ==
    /\ srg_source \in SrgSources /\ Injective(srg_source)
    /\ spigot_source \in SpigotSources /\ Injective(spigot_source)
    /\ mcp_source \in McpSources
    /\ available \in Availabilities
    /\ mcp_version \in McpVersions
    /\ Originals(computed_targets) \subseteq TargetMapping
    /\ Cardinality(Originals(computed_targets)) = Len(computed_targets)
    /\ batch \in 1..MaxCalls
    /\ calls \in 0..batch
    /\ last.kind \in {"none", "ok", "err", "panic", "overflow"}

\* A fresh engine (MappingsTargetComputer::new) that serves one call, over
\* every combination of source data, availability and MCP version
InitSingle ==
    /\ srg_source \in SrgSources
    /\ spigot_source \in SpigotSources
    /\ mcp_source \in McpSources
    /\ available \in Availabilities
    /\ mcp_version \in McpVersions
    /\ batch = 1

\* A fresh engine that serves up to MaxCalls calls, over the reference data
InitBatch ==
    /\ srg_source = ReferenceSrg
    /\ spigot_source = ReferenceSpigot
    /\ mcp_source = ReferenceMcp
    /\ available = AllAvailable
    /\ mcp_version \in McpVersions \ {"none"}
    /\ batch = MaxCalls

Init ==
    /\ InitSingle \/ InitBatch
    /\ computed_targets = EmptyMemo
    /\ calls = 0
    /\ last = NoCall
    /\ returned = EmptyMemo
    /\ CacheSetup("absent")
    /\ LibIdle

\* One call compute_target(target) on the engine; a panic or a stack
\* overflow ends the engine
Call(target) ==
    /\ calls < batch
    /\ last.kind \notin {"panic", "overflow"}
    /\ LET r == ComputeTarget(target, NewEngine(computed_targets), <<>>)
       IN  /\ computed_targets' = r.st.memo
           /\ last' = [target |-> target, kind |-> r.kind, val |-> r.val,
                       err |-> r.err, loads |-> r.st.loads,
                       requested |-> r.st.requested, depth |-> r.st.depth,
                       reentry |-> r.st.reentry,
                       hit |-> Contains(computed_targets, target),
                       again |-> Contains(returned, target)]
           /\ returned' = IF r.kind = "ok" /\ ~Contains(returned, target)
                             THEN Append(returned, <<target, r.val>>)
                             ELSE returned
    /\ calls' = calls + 1
    /\ UNCHANGED <<srg_source, spigot_source, mcp_source, available, mcp_version, batch>>
    /\ UNCHANGED cacheVars
    /\ UNCHANGED libVars

Next == \E target \in TargetMapping : Call(target)

Spec == Init /\ [][Next]_vars

(***************************************************************************)
(* The source caches under concurrent loads.                               *)
(***************************************************************************)
\* The engine is not part of this specification: its variables rest
EngineIdle ==
    /\ srg_source = ReferenceSrg
    /\ spigot_source = ReferenceSpigot
    /\ mcp_source = ReferenceMcp
    /\ available = AllAvailable
    /\ mcp_version = "none"
    /\ computed_targets = EmptyMemo
    /\ calls = 0
    /\ batch = 1
    /\ last = NoCall
    /\ returned = EmptyMemo

\* A cache set up over an empty directory or over the directory a former
\* process left complete
CacheInit ==
    /\ EngineIdle
    /\ \E files \in {"absent", "complete"} : CacheSetup(files)
    /\ LibIdle

CacheTypeOK ==
    /\ published \in [Memos -> DOMAIN heap]
    /\ lock \in [Locks -> {0} \cup Threads]
    /\ disk \in [DiskKeys -> FileStates]
    /\ started \in 0..MaxLoads
    /\ \A t \in Threads :
          /\ threads[t].pc \in {"idle", "lookup", "fallback", "dead"} \cup SlowPath
          /\ threads[t].memo \in Memos
          /\ threads[t].key \in KeysOf(threads[t].memo)
          /\ threads[t].snap \in {0} \cup DOMAIN heap
          /\ threads[t].res.kind \in {"none", "ok", "err", "panic"}

CacheNext ==
    \E t \in Threads :
        \/ \E memo \in Memos : \E key \in KeysOf(memo) : Begin(t, memo, key)
        \/ Lookup(t)
        \/ Acquire(t)
        \/ Recheck(t)
        \/ VersionInfo(t)
        \/ Fetch(t)
        \/ Create(t)
        \/ Write(t)
        \/ Parse(t)
        \/ Publish(t)
        \/ ReturnOk(t)

CacheSpec == CacheInit /\ [][CacheNext]_vars

(***************************************************************************)
(* One Spigot version loaded, by one process after another.                *)
(***************************************************************************)
SpigotInit ==
    /\ EngineIdle
    /\ CacheSetup("absent")
    /\ git \in [class : GitClassMappings, member : GitMemberMappings]
    /\ spigot_files = [f \in {"class.srg", "members.srg", "chained.srg"} |-> NoFile]
    /\ spigot_entry = NoSpigotEntry
    /\ LruIdle
    /\ TargetIdle
    /\ VersionIdle
    /\ McpSpecIdle
    /\ AlgebraIdle

SpigotNext ==
    \/ \E failure \in SpigotFailures : SpigotLoadMappings(failure)
    \/ SpigotRestart

SpigotSpec == SpigotInit /\ [][SpigotNext]_vars

(***************************************************************************)
(* One LruCache and a sequence of insert calls on it.                      *)
(***************************************************************************)
\* LruCache::new(capacity) (the empty table), or a cache that holds a table
LruInit ==
    /\ EngineIdle
    /\ CacheSetup("absent")
    /\ SpigotIdle
    /\ TargetIdle
    /\ VersionIdle
    /\ McpSpecIdle
    /\ AlgebraIdle
    /\ \E capacity \in 0..MaxCapacity :
          \E table \in {t \in LruTables(capacity) : DistinctKeys(t)} :
              lru_cache = LruCacheOf(capacity, table)

LruNext == \E key \in LruKeys : \E value \in LruValues : LruCacheInsert(key, value)

LruSpec == LruInit /\ [][LruNext]_vars

(***************************************************************************)
(* The target string (libs/engine/src/target.rs): a TargetMapping is      *)
(* written with Display and the text is read back with from_str.  The     *)
(* texts read are the ones Display wrote and the ones of InputTexts.      *)
(***************************************************************************)
\* Join the pieces with dashes
RECURSIVE Dashed(_)
Dashed(pieces) ==
    IF pieces = <<>> THEN <<>>
    ELSE IF Len(pieces) = 1 THEN pieces[1]
    ELSE pieces[1] \o <<"-">> \o Dashed(Tail(pieces))

\* The words a flag text is made of: the three flags and one that is none
FlagWords == {"classes", "members", "onlyobf", "srg"}

\* The longest flag text read, in words
MaxFlags == 3

\* The flag texts read: the ones the tests of target.rs parse, in either
\* order, and the ones that are refused
InputFlags == UNION {[1..n -> FlagWords] : n \in 0..MaxFlags}

\* format!("{}", target)
TargetFormat ==
    /\ ~target_text.formatted
    /\ target_text.parsed = NoParse
    /\ ~target_text.built.done
    /\ target_text' = [target_text EXCEPT !.formatted = TRUE,
                                          !.text = TargetFmt(target_text.target)]
    /\ UNCHANGED <<engineVars, cacheVars, spigotVars, lruVars, versionVars, algebraVars>>

\* text.parse::<TargetMapping>()
TargetParse ==
    /\ target_text.formatted
    /\ ~target_text.parsed.done
    /\ target_text' = [target_text EXCEPT !.parsed = TargetFromStr(target_text.text)]
    /\ UNCHANGED <<engineVars, cacheVars, spigotVars, lruVars, versionVars, algebraVars>>

\* A text from outside is parsed: the pair of the target with the flags given
TargetParseInput(flags) ==
    /\ ~target_text.formatted
    /\ target_text.parsed = NoParse
    /\ ~target_text.built.done
    /\ LET text == Dashed(<<Id(target_text.target.original) \o <<"2">>
                              \o Id(target_text.target.renamed)>>
                          \o [i \in 1..Len(flags) |-> Text(flags[i])])
       IN  target_text' = [target_text EXCEPT !.text = text, !.input = flags,
                                              !.parsed = TargetFromStr(text)]
    /\ UNCHANGED <<engineVars, cacheVars, spigotVars, lruVars, versionVars, algebraVars>>

\* TargetFlags::new(classes, members, only_obf)
TargetFlagsNew(classes, members, only_obf) ==
    /\ ~target_text.built.done
    /\ target_text' = [target_text EXCEPT !.built = FlagsNew(classes, members, only_obf),
                                          !.input = <<classes, members, only_obf>>]
    /\ target_text.parsed = NoParse
    /\ ~target_text.formatted
    /\ UNCHANGED <<engineVars, cacheVars, spigotVars, lruVars, versionVars, algebraVars>>

TargetInit ==
    /\ EngineIdle
    /\ CacheSetup("absent")
    /\ SpigotIdle
    /\ LruIdle
    /\ VersionIdle
    /\ McpSpecIdle
    /\ AlgebraIdle
    /\ \E t \in TargetMapping :
          target_text = [target |-> t, formatted |-> FALSE, text |-> <<>>,
                         parsed |-> NoParse, input |-> <<>>, built |-> NoFlags]

TargetNext ==
    \/ TargetFormat
    \/ TargetParse
    \/ \E flags \in InputFlags : TargetParseInput(flags)
    \/ \E classes, members, only_obf \in BOOLEAN :
          TargetFlagsNew(classes, members, only_obf)

TargetSpec == TargetInit /\ [][TargetNext]_vars

(***************************************************************************)
(* The version string (libs/core/src/version.rs): a MinecraftVersion is   *)
(* written with Display and read back with from_str, and texts made of    *)
(* the parts of VersionParts joined by dots are read.                     *)
(***************************************************************************)
\* The numbers the components of a version are drawn from
VersionNumbers == {U32(0), U32(1), U32(8), U32(13), U32(20180808), U32Max}

\* The texts between the dots of a version text read: numbers, the largest
\* u32 and the number after it, a leading zero, signs, no text, a letter
VersionParts ==
    {<<"0">>,
     <<"1">>,
     <<"1", "3">>,
     <<"0", "8">>,
     <<"+", "1">>,
     <<"-", "1">>,
     <<>>,
     <<"1", "a">>,
     <<"4", "2", "9", "4", "9", "6", "7", "2", "9", "5">>,
     <<"4", "2", "9", "4", "9", "6", "7", "2", "9", "6">>}

\* Is the text a nonnegative integer in decimal digits
IsNumber(part) == part # <<>> /\ \A i \in 1..Len(part) : DigitValue(part[i]) >= 0

\* The most parts a version text read has
MaxParts == 4

\* Join the parts with dots
RECURSIVE Dotted(_)
Dotted(parts) ==
    IF Len(parts) = 1 THEN parts[1]
    ELSE parts[1] \o <<".">> \o Dotted(Tail(parts))

\* format!("{}", version)
VersionFormat ==
    /\ version_text.has_version
    /\ ~version_text.formatted
    /\ version_text' = [version_text EXCEPT !.formatted = TRUE,
                                            !.text = VersionFmt(version_text.version)]
    /\ UNCHANGED <<engineVars, cacheVars, spigotVars, lruVars, targetVars,
                   mcp_spec_text, algebraVars>>

\* text.parse::<MinecraftVersion>() of the text Display wrote
VersionParse ==
    /\ version_text.formatted
    /\ ~version_text.parsed.done
    /\ version_text' = [version_text EXCEPT !.parsed = VersionFromStr(version_text.text)]
    /\ UNCHANGED <<engineVars, cacheVars, spigotVars, lruVars, targetVars,
                   mcp_spec_text, algebraVars>>

\* text.parse::<MinecraftVersion>() of a text from outside
VersionParseInput(parts) ==
    /\ ~version_text.has_version
    /\ ~version_text.parsed.done
    /\ version_text' = [version_text EXCEPT !.input = parts, !.text = Dotted(parts),
                                            !.parsed = VersionFromStr(Dotted(parts))]
    /\ UNCHANGED <<engineVars, cacheVars, spigotVars, lruVars, targetVars,
                   mcp_spec_text, algebraVars>>

VersionInit ==
    /\ EngineIdle
    /\ CacheSetup("absent")
    /\ SpigotIdle
    /\ LruIdle
    /\ TargetIdle
    /\ McpSpecIdle
    /\ AlgebraIdle
    /\ \/ VersionIdle
       \/ \E major, minor, patch \in VersionNumbers :
             version_text = [has_version |-> TRUE,
                             version |-> Version(major, minor, patch),
                             formatted |-> FALSE, text |-> <<>>, input |-> <<>>,
                             parsed |-> NoVersionParse]

VersionNext ==
    \/ VersionFormat
    \/ VersionParse
    \/ \E n \in 1..MaxParts : \E parts \in [1..n -> VersionParts] :
          VersionParseInput(parts)

VersionSpec == VersionInit /\ [][VersionNext]_vars

(***************************************************************************)
(* The MCP version string (libs/core/src/mcp.rs): an McpVersionSpec is    *)
(* written with Display and read back with from_str, the download URL and *)
(* the cache directory of its version are built, and texts made of the    *)
(* pieces of McpSpecPieces joined by underscores are read.                *)
(***************************************************************************)
\* The revisions a spec is drawn from
McpValues == {U32(0), U32(39), U32(20180808), U32Max}

\* The Minecraft versions a resolved version is drawn from
McpMinecraftVersions == {Version(U32(1), U32(13), U32(0)), Version(U32(1), U32(8), U32(8))}

\* The texts between the underscores of a text read
McpSpecPieces == {"snapshot", "stable", "Stable", "nodoc", "39", "x", ""}

\* The most pieces a text read has
MaxPieces == 3

\* Join the pieces with underscores
RECURSIVE Underscored(_)
Underscored(pieces) ==
    IF Len(pieces) = 1 THEN McpText(pieces[1])
    ELSE McpText(pieces[1]) \o <<"_">> \o Underscored(Tail(pieces))

\* format!("{}", spec)
McpSpecFormat ==
    /\ mcp_spec_text.has_spec
    /\ ~mcp_spec_text.formatted
    /\ mcp_spec_text' = [mcp_spec_text EXCEPT !.formatted = TRUE,
                                              !.text = McpSpecFmt(mcp_spec_text.spec)]
    /\ UNCHANGED <<engineVars, cacheVars, spigotVars, lruVars, targetVars,
                   version_text, algebraVars>>

\* text.parse::<McpVersionSpec>() of the text Display wrote
McpSpecParse ==
    /\ mcp_spec_text.formatted
    /\ ~mcp_spec_text.parsed.done
    /\ mcp_spec_text' = [mcp_spec_text EXCEPT !.parsed = McpSpecFromStr(mcp_spec_text.text)]
    /\ UNCHANGED <<engineVars, cacheVars, spigotVars, lruVars, targetVars,
                   version_text, algebraVars>>

\* text.parse::<McpVersionSpec>() of a text from outside
McpSpecParseInput(pieces) ==
    /\ ~mcp_spec_text.has_spec
    /\ ~mcp_spec_text.parsed.done
    /\ mcp_spec_text' = [mcp_spec_text EXCEPT !.input = pieces,
                                              !.text = Underscored(pieces),
                                              !.parsed = McpSpecFromStr(Underscored(pieces))]
    /\ UNCHANGED <<engineVars, cacheVars, spigotVars, lruVars, targetVars,
                   version_text, algebraVars>>

\* The directory and the URL load_mappings_fallback and download_into build
\* for the version of the spec
McpSpecLocate ==
    /\ mcp_spec_text.has_spec
    /\ mcp_spec_text.url = <<>>
    /\ mcp_spec_text' =
          [mcp_spec_text EXCEPT
              !.directory = VersionDirectory(mcp_spec_text.spec.version),
              !.url = DownloadZipUrl([version |-> mcp_spec_text.spec.version,
                                      minecraft_version |-> mcp_spec_text.minecraft_version],
                                     TRUE)]
    /\ UNCHANGED <<engineVars, cacheVars, spigotVars, lruVars, targetVars,
                   version_text, algebraVars>>

McpSpecInit ==
    /\ EngineIdle
    /\ CacheSetup("absent")
    /\ SpigotIdle
    /\ LruIdle
    /\ TargetIdle
    /\ VersionIdle
    /\ AlgebraIdle
    /\ \/ McpSpecIdle
       \/ \E value \in McpValues, channel \in McpChannel, nodoc \in BOOLEAN,
             version \in McpMinecraftVersions :
             mcp_spec_text = [has_spec |-> TRUE,
                              spec |-> McpVersionSpec(value, channel, nodoc),
                              minecraft_version |-> version,
                              formatted |-> FALSE, text |-> <<>>, input |-> <<>>,
                              parsed |-> NoMcpSpecParse, url |-> <<>>,
                              directory |-> <<>>]

McpSpecNext ==
    \/ McpSpecFormat
    \/ McpSpecParse
    \/ McpSpecLocate
    \/ \E n \in 1..MaxPieces : \E pieces \in [1..n -> McpSpecPieces] :
          McpSpecParseInput(pieces)

McpSpecSpec == McpSpecInit /\ [][McpSpecNext]_vars

(***************************************************************************)
(* The Mappings algebra on operands of its own: a Mappings is inverted    *)
(* and the result inverted again; three Mappings are chained from the     *)
(* left and from the right.                                                *)
(***************************************************************************)
\* The classes and member names of the operands
AlgebraClasses == {"a", "b"}
AlgebraFieldNames == {"f", "g"}
AlgebraMethodNames == {"m", "n"}

\* The largest number of entries of a table of a Mappings that is inverted,
\* and of one that is chained
MaxEntries == 2
MaxChainEntries == 1

\* Are the keys of the table distinct
UniqueKeys(tbl) == \A i, j \in DOMAIN tbl : tbl[i][1] = tbl[j][1] => i = j

\* The tables of at most n entries with distinct keys
TablesOf(keys, values, n) ==
    {tbl \in UNION {[1..k -> keys \X values] : k \in 0..n} : UniqueKeys(tbl)}

\* The Mappings with tables of at most n entries: fields named names
MappingsOf(n, names) ==
    [classes : TablesOf(AlgebraClasses, AlgebraClasses, n),
     fields : TablesOf({FieldData(cls, name) : cls \in AlgebraClasses, name \in names},
                       AlgebraFieldNames, n),
     methods : TablesOf({MethodData(cls, "m", <<cls>>) : cls \in AlgebraClasses},
                        AlgebraMethodNames, n)]

\* The Mappings that are chained: no methods
ChainMappings ==
    {m \in MappingsOf(MaxChainEntries, AlgebraFieldNames) : m.methods = <<>>}

\* m.inverted()
AlgebraInvert ==
    /\ algebra.op = "invert"
    /\ ~algebra.done
    /\ algebra' = [algebra EXCEPT !.once = Invert(algebra.a), !.done = TRUE]
    /\ UNCHANGED <<engineVars, cacheVars, spigotVars, lruVars, targetVars, versionVars>>

\* m.inverted().inverted()
AlgebraInvertAgain ==
    /\ algebra.op = "invert"
    /\ algebra.once.ok
    /\ ~algebra.twice.ok
    /\ Invert(algebra.once.val).ok
    /\ algebra' = [algebra EXCEPT !.twice = Invert(algebra.once.val)]
    /\ UNCHANGED <<engineVars, cacheVars, spigotVars, lruVars, targetVars, versionVars>>

\* a.chain(b).chain(c) and a.chain(b.chain(c))
AlgebraChain ==
    /\ algebra.op = "chain"
    /\ ~algebra.done
    /\ algebra' = [algebra EXCEPT
                      !.left = Chain(Chain(algebra.a, algebra.b), algebra.c),
                      !.right = Chain(algebra.a, Chain(algebra.b, algebra.c)),
                      !.done = TRUE]
    /\ UNCHANGED <<engineVars, cacheVars, spigotVars, lruVars, targetVars, versionVars>>

AlgebraInit ==
    /\ EngineIdle
    /\ CacheSetup("absent")
    /\ SpigotIdle
    /\ LruIdle
    /\ TargetIdle
    /\ VersionIdle
    /\ McpSpecIdle
    /\ \/ \E m \in MappingsOf(MaxEntries, {"f"}) :
             algebra = [NoAlgebra EXCEPT !.op = "invert", !.a = m]
       \/ \E a, b, c \in ChainMappings :
             algebra = [NoAlgebra EXCEPT !.op = "chain", !.a = a, !.b = b, !.c = c]
       \/ \E spigot \in SpigotSources, srg \in SrgSources, mcp \in McpSources :
             algebra = [NoAlgebra EXCEPT !.op = "chain", !.a = Inverted(spigot),
                                         !.b = srg, !.c = Srg2Mcp(srg, mcp)]

AlgebraNext ==
    \/ AlgebraInvert
    \/ AlgebraInvertAgain
    \/ AlgebraChain

AlgebraSpec == AlgebraInit /\ [][AlgebraNext]_vars

(***************************************************************************)
(* Properties of the engine.                                               *)
(***************************************************************************)
\* What compute_target(target) yields on a fresh engine over the same sources
Fresh(target) == ComputeTarget(target, NewEngine(EmptyMemo), <<>>)

Range(seq) == {seq[i] : i \in DOMAIN seq}

OnlyObfFlags == [filter |-> "none", only_obf |-> TRUE]

SPIGOT2MCP == NewTarget("spigot", "mcp")

SPIGOT2SRG == NewTarget("spigot", "srg")

\* The chain rows of the base algebra table
TableChain(pair) ==
    CASE pair = <<"obf", "mcp">> -> <<NewTarget("obf", "srg"), NewTarget("srg", "mcp")>>
      [] pair = <<"spigot", "srg">> -> <<NewTarget("spigot", "obf"), NewTarget("obf", "srg")>>
      [] pair = <<"spigot", "mcp">> -> <<NewTarget("spigot", "obf"), NewTarget("obf", "mcp")>>
      [] pair = <<"mcp", "spigot">> -> <<NewTarget("mcp", "obf"), NewTarget("obf", "spigot")>>
      [] pair = <<"srg", "spigot">> -> <<NewTarget("srg", "obf"), NewTarget("obf", "spigot")>>

\* The invert rows of the base algebra table
TableInvert == {<<"srg", "obf">>, <<"mcp", "srg">>, <<"spigot", "obf">>, <<"mcp", "obf">>}

\* C1: compute_target of (srg, spigot) with default flags returns
\* chain(compute_target(srg2obf), compute_target(obf2spigot)): the second
\* operand of the chain is the obf -> spigot mapping.
C1_SrgSpigotChainsObf2Spigot ==
    (/\ last.kind = "ok"
     /\ last.target = NewTarget("srg", "spigot")
     /\ Fresh(OBF2SPIGOT).kind = "ok")
    => last.val = Chain(Fresh(SRG2OBF).val, Fresh(OBF2SPIGOT).val)

\* The rows of the base algebra table a call returned from follow the table
C2_ReturnedRowsFollowTable ==
    (last.kind = "ok" /\ IsDefault(last.target.flags)) =>
        LET pair == <<last.target.original, last.target.renamed>>
        IN  /\ pair \in TableInvert =>
                 /\ Reversed(last.target) \in Originals(computed_targets)
                 /\ last.val = Inverted(Get(computed_targets, Reversed(last.target)))
            /\ pair \in {<<"obf", "mcp">>, <<"spigot", "srg">>,
                         <<"spigot", "mcp">>, <<"mcp", "spigot">>} =>
                 /\ TableChain(pair)[1] \in Originals(computed_targets)
                 /\ TableChain(pair)[2] \in Originals(computed_targets)
                 /\ last.val = Chain(Get(computed_targets, TableChain(pair)[1]),
                                     Get(computed_targets, TableChain(pair)[2]))

\* The targets of the base algebra table other than the primitives and
\* (srg, spigot)
TableRows ==
    TableInvert \cup {<<"obf", "mcp">>, <<"spigot", "srg">>,
                      <<"spigot", "mcp">>, <<"mcp", "spigot">>}

\* C2 (as stated, violated): every default-flag target other than the
\* primitives and (srg, spigot), called where every source is served and the
\* MCP version is given, returns what the base algebra table defines: the
\* four invert rows return the inverse of the reversed target's result, the
\* four chain rows the chain of the two listed sub-targets in the listed
\* order.
C2_BaseAlgebraTable ==
    (/\ last.kind # "none"
     /\ IsDefault(last.target.flags)
     /\ <<last.target.original, last.target.renamed>> \in TableRows
     /\ available = AllAvailable
     /\ mcp_version # "none") =>
        /\ last.kind = "ok"
        /\ C2_ReturnedRowsFollowTable

\* C3 (as stated, violated): (srg, mcp), called where every source is served
\* and the MCP version is given, returns a result that has no class entries
\* and whose field (method) table holds exactly the SRG-side fields (methods)
\* of obf2srg whose name is a key of the MCP field (method) dictionary, each
\* under the dictionary's name.
C3_Srg2McpFromDictionary ==
    (/\ last.target = SRG2MCP
     /\ last.kind # "none"
     /\ available = AllAvailable
     /\ mcp_version # "none") =>
        LET obf2srg == Get(computed_targets, OBF2SRG)
            fields == { <<RenamedField(obf2srg, e), Get(mcp_source.fields, e[2])>> :
                          e \in {x \in Range(obf2srg.fields) :
                                    Contains(mcp_source.fields, x[2])} }
            methods == { <<RenamedMethod(obf2srg, e), Get(mcp_source.methods, e[2])>> :
                          e \in {x \in Range(obf2srg.methods) :
                                    Contains(mcp_source.methods, x[2])} }
        IN  /\ last.kind = "ok"
            /\ last.val.classes = <<>>
            /\ Range(last.val.fields) = fields
            /\ Len(last.val.fields) = Cardinality(fields)
            /\ Range(last.val.methods) = methods
            /\ Len(last.val.methods) = Cardinality(methods)
            /\ \A e \in Range(last.val.fields) :
                  RenamedField(last.val, e) = [cls |-> e[1].cls, name |-> e[2]]

\* C4: once compute_target(T) has succeeded on an engine, a later
\* compute_target(T) returns the same Mappings from the memo and performs no
\* load on the source-cache facade.
C4_SecondCallServedFromMemo ==
    last.again =>
        /\ last.kind = "ok"
        /\ last.hit
        /\ last.val = Get(returned, last.target)
        /\ last.loads = <<>>

\* C4 witness: a second, successful spigot2srg on the same engine
C4_Witness ==
    /\ last.again
    /\ last.target = SPIGOT2SRG
    /\ last.kind = "ok"
    /\ last.val.fields # <<>>

\* C5: after a successful compute_target(T) the memo holds T and every
\* target compute_target was called with on the way (after spigot2srg:
\* spigot2obf, obf2spigot, obf2srg; after spigot2mcp these and obf2mcp,
\* srg2mcp), and each of them is a memo hit afterwards.
C5_DerivedTargetsMemoized ==
    last.kind = "ok" =>
        /\ last.target \in Originals(computed_targets)
        /\ Range(last.requested) \subseteq Originals(computed_targets)
        /\ last.target = SPIGOT2SRG =>
              {SPIGOT2OBF, OBF2SPIGOT, OBF2SRG} \subseteq Originals(computed_targets)
        /\ last.target = SPIGOT2MCP =>
              {SPIGOT2OBF, OBF2SPIGOT, OBF2MCP, OBF2SRG, SRG2MCP}
                  \subseteq Originals(computed_targets)
        /\ \A t \in Range(last.requested) :
              LET r == ComputeTarget(t, NewEngine(computed_targets), <<>>)
              IN  r.kind = "ok" /\ r.st.loads = <<>> /\ r.st.requested = <<t>>

\* C5 witness: spigot2srg computed on an engine whose memo was empty
C5_Witness ==
    /\ last.kind = "ok"
    /\ last.target = SPIGOT2SRG
    /\ ~last.hit
    /\ Range(last.requested) = {SPIGOT2SRG, SPIGOT2OBF, OBF2SPIGOT, OBF2SRG}
    /\ calls = 1

\* C6: the Mappings returned for a target depends only on the target (flags
\* included) and the engine's sources, never on the targets or flag variants
\* computed earlier on the engine.
C6_ResultDependsOnlyOnTarget ==
    last.kind \in {"ok", "err"} =>
        /\ Fresh(last.target).kind = last.kind
        /\ Fresh(last.target).val = last.val

\* C6 witness: srg2obf returned after its classes-onlyobf variant was computed
C6_Witness ==
    /\ calls = 2
    /\ last.kind = "ok"
    /\ last.target = SRG2OBF
    /\ [SRG2OBF EXCEPT !.flags = [filter |-> "classes", only_obf |-> TRUE]]
          \in Originals(returned)
    /\ last.val.fields # <<>>

\* C7: an error returned by compute_target(T) is a TargetComputeError whose
\* target is T, whichever step failed.
C7_ErrorNamesRequestedTarget ==
    last.kind = "err" =>
        /\ last.err.targets # <<>>
        /\ last.err.targets[1] = last.target
        /\ last.err.cause # "none"

\* C7 witness: spigot2mcp failed in the load of a sub-target of a sub-target
C7_Witness ==
    /\ last.kind = "err"
    /\ last.target = SPIGOT2MCP
    /\ last.err.targets = <<SPIGOT2MCP, OBF2MCP, SRG2MCP>>
    /\ last.err.cause = "mcp load failed"

\* C8: with onlyobf set (no filter) and an original other than obf, the
\* result is the base result restricted to the classes that (original -> obf)
\* does not list or maps to themselves and to the fields and methods that
\* (original -> obf) does not list or maps to a member of the same name;
\* nothing is added or changed.
C8_OnlyObfRetains ==
    (/\ last.kind = "ok"
     /\ last.target.flags = OnlyObfFlags
     /\ last.target.original # "obf") =>
        LET base == Fresh(WithDefaultFlags(last.target)).val
            F2OBF == Get(computed_targets, NewTarget(last.target.original, "obf"))
            StillObfClass(e) ==
                ~Contains(F2OBF.classes, e[1]) \/ Get(F2OBF.classes, e[1]) = e[1]
            StillObfField(e) ==
                ~Contains(F2OBF.fields, e[1]) \/ Get(F2OBF.fields, e[1]) = e[1].name
            StillObfMethod(e) ==
                ~Contains(F2OBF.methods, e[1]) \/ Get(F2OBF.methods, e[1]) = e[1].name
        IN  last.val = [classes |-> SelectSeq(base.classes, StillObfClass),
                        fields  |-> SelectSeq(base.fields, StillObfField),
                        methods |-> SelectSeq(base.methods, StillObfMethod)]

\* C8 witness: spigot2srg-onlyobf keeps some classes and fields and removes
\* others
C8_Witness ==
    /\ last.kind = "ok"
    /\ last.target = [SPIGOT2SRG EXCEPT !.flags = OnlyObfFlags]
    /\ Len(last.val.classes) >= 1
    /\ Len(last.val.classes) < Len(Fresh(SPIGOT2SRG).val.classes)
    /\ Len(last.val.fields) >= 1
    /\ Len(last.val.fields) < Len(Fresh(SPIGOT2SRG).val.fields)

\* C9: for an original of obf, compute_target with onlyobf (no filter)
\* returns the Mappings of the same pair with default flags and calls
\* compute_target for no further target.
C9_OnlyObfNoOpFromObf ==
    (/\ last.kind # "none"
     /\ last.target.original = "obf"
     /\ last.target.renamed # "obf"
     /\ last.target.flags = OnlyObfFlags) =>
        LET plain == Fresh(WithDefaultFlags(last.target))
        IN  /\ last.kind = plain.kind
            /\ last.val = plain.val
            /\ Range(last.requested) \ {last.target}
                  \subseteq Range(plain.st.requested) \ {WithDefaultFlags(last.target)}

\* C9 witness: obf2srg-onlyobf computed on an engine whose memo was empty
C9_Witness ==
    /\ last.kind = "ok"
    /\ last.target = [OBF2SRG EXCEPT !.flags = OnlyObfFlags]
    /\ ~last.hit
    /\ last.val.classes # <<>>
    /\ last.val.fields # <<>>

\* C10: the filter is applied to the onlyobf-restricted base: with classes
\* the field and method tables are empty and the class table is that of the
\* restricted base; with members the class table is empty and the field and
\* method tables are those of the restricted base.
C10_FilterAfterOnlyObf ==
    (last.kind = "ok" /\ last.target.flags.filter # "none") =>
        LET restricted == Fresh([last.target EXCEPT !.flags.filter = "none"]).val
        IN  /\ last.target.flags.filter = "classes" =>
                 last.val = [classes |-> restricted.classes,
                             fields |-> <<>>, methods |-> <<>>]
            /\ last.target.flags.filter = "members" =>
                 last.val = [classes |-> <<>>, fields |-> restricted.fields,
                             methods |-> restricted.methods]

\* C10 witness: spigot2srg-classes-onlyobf holds some but not all classes of
\* spigot2srg and no members
C10_Witness ==
    /\ last.kind = "ok"
    /\ last.target =
          [SPIGOT2SRG EXCEPT !.flags = [filter |-> "classes", only_obf |-> TRUE]]
    /\ last.val.classes # <<>>
    /\ Len(last.val.classes) < Len(Fresh(SPIGOT2SRG).val.classes)
    /\ Fresh(SPIGOT2SRG).val.fields # <<>>

MCP2SPIGOT == NewTarget("mcp", "spigot")

\* C11 (as stated): the number of nested compute_target activations,
\* counting the outermost call, never exceeds 4.
C11_DepthAtMostFour == last.depth <= 4

\* C11 (amended): the number of nested compute_target activations, counting
\* the outermost call, never exceeds 5, for any target and any flags.
C11_DepthAtMostFive == last.depth <= 5

\* C11 witness: mcp2spigot on an empty memo nests five activations
\* (mcp2spigot, mcp2obf, obf2mcp, srg2mcp, obf2srg) before the load of the
\* MCP data ends the call
C11_Witness ==
    /\ last.kind = "panic"
    /\ last.target = MCP2SPIGOT
    /\ ~last.hit
    /\ last.depth = 5

\* C12: no compute_target starts for a key that is in progress, the
\* onlyobf helper included, and every call ends (with a Mappings, an error
\* or the panic of an identity target) instead of recursing without end.
C12_NoReentry ==
    last.kind # "none" =>
        /\ ~last.reentry
        /\ last.kind \in {"ok", "err", "panic"}

\* C12 witness: spigot2obf-onlyobf, whose helper is the same pair with
\* default flags, was computed on an empty memo
C12_Witness ==
    /\ last.kind = "ok"
    /\ last.target = [SPIGOT2OBF EXCEPT !.flags = OnlyObfFlags]
    /\ ~last.hit
    /\ SPIGOT2OBF \in Range(last.requested)
    /\ last.depth >= 2

\* C13 (as stated, violated): on an engine without an McpVersion every call
\* for a target with an mcp endpoint fails with "Unspecified MCP version",
\* and a target whose endpoints are both in {obf, spigot} never fails with
\* that cause.
C13_McpVersionAlwaysDemanded ==
    (last.kind # "none" /\ mcp_version = "none") =>
        /\ "mcp" \in {last.target.original, last.target.renamed} =>
              /\ last.kind = "err"
              /\ last.err.cause = "Unspecified MCP version"
        /\ ~NeedsMcpVersion(last.target) =>
              last.err.cause # "Unspecified MCP version"

\* C13 (amended): on an engine without an McpVersion a call for a target
\* with an mcp endpoint never returns a Mappings: mcp2mcp panics (the
\* "Redundant" arm); any other such target fails with "Unspecified MCP
\* version" unless a source load that comes before the version is asked for
\* fails (the Spigot load of spigot2mcp, then the SRG load), and then the
\* call ends with the failure of that load.  A target whose endpoints are
\* both in {obf, spigot} never fails with "Unspecified MCP version".
C13_McpVersionDemanded ==
    (last.kind # "none" /\ mcp_version = "none") =>
        /\ "mcp" \in {last.target.original, last.target.renamed} =>
              /\ last.kind # "ok"
              /\ CASE last.target.original = last.target.renamed ->
                        last.kind = "panic"
                   [] /\ last.target.original = "spigot"
                      /\ available["spigot"] = "tree" ->
                        last.kind = "panic"
                   [] /\ last.target.original = "spigot"
                      /\ available["spigot"] = "err" ->
                        /\ last.kind = "err"
                        /\ last.err.cause = "spigot load failed"
                   [] available["srg"] # "ok" ->
                        /\ last.kind = "err"
                        /\ last.err.cause = "srg load failed"
                   [] OTHER ->
                        /\ last.kind = "err"
                        /\ last.err.cause = "Unspecified MCP version"
        /\ ~NeedsMcpVersion(last.target) =>
              last.err.cause # "Unspecified MCP version"

\* C13 witness: spigot2mcp fails for the missing version after both of its
\* source loads succeeded
C13_Witness ==
    /\ mcp_version = "none"
    /\ available = AllAvailable
    /\ last.target = SPIGOT2MCP
    /\ last.kind = "err"
    /\ last.err.cause = "Unspecified MCP version"
    /\ last.loads = <<"spigot", "srg">>

\* C14: compute_target on an identity target, whatever its flags, panics
\* and leaves the memo as it was.
C14_IdentityTargetPanics ==
    [][(calls' = calls + 1 /\ last'.target.original = last'.target.renamed)
          => (last'.kind = "panic" /\ computed_targets' = computed_targets)]_vars

\* C14 witness: an identity target with flags panicked on an engine whose
\* memo holds earlier results
C14_Witness ==
    /\ last.kind = "panic"
    /\ last.target.original = last.target.renamed
    /\ last.target.flags = OnlyObfFlags
    /\ computed_targets # EmptyMemo
    /\ calls = 2


(***************************************************************************)
(* Properties of the source caches (specification CacheSpec).              *)
(***************************************************************************)
\* The threads between acquiring the mutex l and dropping the guard (by
\* returning after ArcCell::set, by a re-check hit, or by failing)
InSlowPath(l) ==
    {t \in Threads : threads[t].pc \in SlowPath /\ LockOf(threads[t].memo) = l}

\* C15: in each source cache at most one thread at a time is between
\* acquiring the cache mutex and returning or failing, and it is the holder
\* of the mutex; SRG loads and MCP loads share one mutex and so exclude each
\* other as well.
C15_OneLoaderPerCache ==
    \A l \in Locks :
        /\ Cardinality(InSlowPath(l)) <= 1
        /\ \A t \in InSlowPath(l) : lock[l] = t
        /\ lock[l] # 0 => lock[l] \in InSlowPath(l)

\* C15 witness: one thread is inside an SRG load past the re-check while
\* another waits for the same mutex with an MCP load
C15_Witness ==
    \E t1, t2 \in Threads :
        /\ t1 # t2
        /\ threads[t1].memo = "srg"
        /\ threads[t1].pc \in SlowPath \ {"recheck"}
        /\ threads[t2].memo = "mcp"
        /\ threads[t2].pc = "fallback"

\* C16: while no step of the loads of a version of the SRG or the Spigot
\* memo has failed, the upstream fetch and the disk write of the version
\* happen at most once and once each if at all, the version is published at
\* most once, a thread between a missed re-check and its ArcCell::set
\* implies that nothing was published yet, and all the values returned for
\* the version are equal.
C16_LoadedOnce ==
    \A memo \in {"srg", "spigot"} : \A key \in GameVersions :
        LET d == <<memo, key>>
        IN  ~io[d].failed =>
              /\ io[d].fetches <= 1
              /\ io[d].writes <= io[d].fetches
              /\ io[d].publishes <= 1
              /\ io[d].publishes = 1 /\ disk[d] = "complete" /\ io[d].fetches = 1
                    => io[d].writes = 1
              /\ Cardinality(io[d].vals) <= 1
              /\ \A t \in Threads :
                    (/\ threads[t].memo = memo
                     /\ threads[t].key = key
                     /\ threads[t].pc \in SlowPath \ {"recheck", "return"})
                        => io[d].publishes = 0

\* C16 witness: two threads loaded the same Spigot version from a cold
\* cache; one fetched, wrote and published it, the other found it by the
\* re-check under the mutex, and both returned
C16_Witness ==
    \E t1, t2 \in Threads : \E key \in GameVersions :
        LET d == <<"spigot", key>>
        IN  /\ t1 # t2
            /\ \A t \in {t1, t2} :
                  /\ threads[t].memo = "spigot" /\ threads[t].key = key
                  /\ threads[t].pc = "idle" /\ threads[t].res.kind = "ok"
            /\ threads[t2].res.rechecked
            /\ ~threads[t1].res.rechecked /\ ~threads[t1].res.fast
            /\ ~io[d].failed
            /\ io[d].fetches = 1 /\ io[d].writes = 1 /\ io[d].publishes = 1


\* C17 (as stated, violated): in every reachable state each version present
\* in a published snapshot has its files on disk fully written (and, for the
\* Spigot memo, its version info as well).
C17_WrittenBeforePublished ==
    \A memo \in Memos : \A key \in KeysOf(memo) :
        Contains(heap[published[memo]], key) =>
            /\ disk[<<memo, key>>] = "complete"
            /\ memo = "spigot" => disk[<<"info", key>>] = "complete"


\* C18: a load call that began when its version was in the published
\* snapshot never waits for or takes the cache mutex: its lookup step can
\* always be taken, whoever holds the mutex, and the call returns the
\* version from the lock-free path.
C18_HitWithoutLock ==
    \A t \in Threads :
        threads[t].present =>
            /\ threads[t].pc \in {"lookup", "idle"}
            /\ lock[LockOf(threads[t].memo)] # t
            /\ threads[t].pc = "lookup" => ENABLED Lookup(t)
            /\ threads[t].pc = "idle" =>
                  /\ threads[t].res.kind = "ok"
                  /\ threads[t].res.fast
                  /\ ~threads[t].res.rechecked

\* C18 witness: a call for a published version returned it while another
\* thread held the mutex of the same cache inside a load
C18_Witness ==
    \E t1, t2 \in Threads :
        /\ t1 # t2
        /\ threads[t1].present
        /\ threads[t1].pc = "idle"
        /\ threads[t1].res.kind = "ok"
        /\ threads[t1].res.fast
        /\ threads[t1].res.contended
        /\ lock[LockOf(threads[t1].memo)] = t2
        /\ threads[t2].pc \in SlowPath


\* C19: a snapshot object is never modified once it exists (a step only
\* adds objects), and a thread that holds a snapshot reads from it the table
\* it read when it took it, whatever was published since.
C19_SnapshotsImmutable ==
    /\ [](\A t \in Threads :
            threads[t].snap # 0 => heap[threads[t].snap] = threads[t].seen)
    /\ [][/\ Len(heap') >= Len(heap)
          /\ \A i \in DOMAIN heap : heap'[i] = heap[i]]_vars

\* C19 witness: a reader still holds, unchanged, the snapshot it took before
\* another thread published a new one with a further version
C19_Witness ==
    \E t \in Threads :
        /\ threads[t].pc = "lookup"
        /\ threads[t].snap # published[threads[t].memo]
        /\ heap[threads[t].snap] = threads[t].seen
        /\ ~Contains(threads[t].seen, threads[t].key)
        /\ Contains(heap[published[threads[t].memo]], threads[t].key)


\* C20: the step by which a load call fails, by returning an error or by a
\* panic, leaves the published pointers and the snapshot objects as they
\* were and the mutex of the cache free of the caller (free of anyone, if
\* the caller was inside the slow path), and the version is not in the
\* published snapshot, so that the next load of it misses the memo and
\* attempts the load again.
C20_FailureLeavesMemo ==
    [][\A t \in Threads :
          (/\ threads[t].pc \notin {"idle", "dead"}
           /\ \/ threads'[t].pc = "idle" /\ threads'[t].res.kind = "err"
              \/ threads'[t].pc = "dead")
              => /\ published' = published
                 /\ heap' = heap
                 /\ lock'[LockOf(threads[t].memo)] # t
                 /\ threads[t].pc \in SlowPath
                       => lock'[LockOf(threads[t].memo)] = 0
                 /\ ~Contains(heap'[published'[threads[t].memo]], threads[t].key)
      ]_vars

\* C20 witness: a load of a version failed inside the slow path and another
\* call for the same version, finding it neither in the fast path nor in the
\* re-check, is attempting the load again under the mutex
C20_Witness ==
    \E t1, t2 \in Threads :
        /\ t1 # t2
        /\ threads[t1].pc = "idle"
        /\ threads[t1].res.kind = "err"
        /\ threads[t1].res.cause \in {"fetch", "create", "write", "parse"}
        /\ threads[t2].memo = threads[t1].memo
        /\ threads[t2].key = threads[t1].key
        /\ threads[t2].pc \in SlowPath \ {"recheck"}
        /\ lock[LockOf(threads[t2].memo)] = t2
        /\ io[<<threads[t1].memo, threads[t1].key>>].failed
        /\ ~Contains(heap[published[threads[t1].memo]], threads[t1].key)


\* C21 (as stated, violated): files left partially written are fetched again
\* by the next load and never parsed and published: a load parses or
\* publishes from completely written files only, and no published value was
\* parsed from a partial file.
C21_PartialFileRefetched ==
    /\ \A t \in Threads :
          threads[t].pc \in {"parse", "publish"} => disk[FilesOf(t)] = "complete"
    /\ \A memo \in Memos : \A key \in KeysOf(memo) :
          Contains(heap[published[memo]], key)
              => Get(heap[published[memo]], key) # ParsedValue("partial")

\* C22: a load_mappings call for an McpVersion that does not occur in the
\* version index never waits for or holds the mutex and never enters the slow path;
\* no download, write or publication happens for it and its files are never
\* created; the step by which it returns yields UnknownMcpVersion and
\* changes neither mutex, disk nor memo.
C22_UnknownMcpVersion ==
    /\ [](\A t \in Threads :
            (threads[t].memo = "mcp" /\ threads[t].key \notin VersionList) =>
                /\ threads[t].pc \in {"idle", "lookup"}
                /\ lock["mcp"] # t
                /\ io[FilesOf(t)] = NoIo
                /\ disk[FilesOf(t)] # "partial"
                /\ ~Contains(heap[published["mcp"]], threads[t].key))
    /\ [][\A t \in Threads :
            (/\ threads[t].memo = "mcp"
             /\ threads[t].key \notin VersionList
             /\ threads[t].pc = "lookup"
             /\ threads'[t].pc # "lookup")
                => /\ threads'[t].pc = "idle"
                   /\ threads'[t].res.kind = "err"
                   /\ threads'[t].res.cause = "UnknownMcpVersion"
                   /\ UNCHANGED <<published, heap, lock, disk, io>>
       ]_vars

\* C22 witness: a load of an McpVersion missing from the version index
\* returned UnknownMcpVersion while another thread held the mutex of the
\* cache inside a load
C22_Witness ==
    \E t1, t2 \in Threads :
        /\ t1 # t2
        /\ threads[t1].memo = "mcp"
        /\ threads[t1].key \notin VersionList
        /\ threads[t1].pc = "idle"
        /\ threads[t1].res.kind = "err"
        /\ threads[t1].res.cause = "UnknownMcpVersion"
        /\ lock["mcp"] = t2
        /\ threads[t2].pc \in SlowPath


\* C23: a Spigot load whose version-info download met a 404 has failed with
\* the unknown-version error of its version; one whose download failed
\* otherwise has failed with the error of the download, not with the
\* unknown-version error; the unknown-version error comes from a 404 only;
\* and the step of the 404 finds the version-info file absent and leaves
\* disk and memo as they were.
C23_NotFoundIsUnknownVersion ==
    /\ [](\A t \in Threads :
            /\ threads[t].response = "404" =>
                  /\ threads[t].pc = "idle"
                  /\ threads[t].res.kind = "err"
                  /\ threads[t].res.cause = "UnknownMinecraftVersion"
            /\ threads[t].response \notin {"none", "200", "404"} =>
                  /\ threads[t].pc = "idle"
                  /\ threads[t].res.kind = "err"
                  /\ threads[t].res.cause = Download(threads[t].response)
                  /\ threads[t].res.cause # "UnknownMinecraftVersion"
            /\ threads[t].res.cause = "UnknownMinecraftVersion" =>
                  threads[t].response = "404")
    /\ [][\A t \in Threads :
            (threads[t].pc = "info" /\ threads'[t].response = "404")
                => /\ disk[<<"info", threads[t].key>>] = "absent"
                   /\ UNCHANGED <<disk, published, heap>>
       ]_vars

\* C23 witness: one Spigot load failed with the unknown-version error after
\* a 404 and another with the error of curl after a 500, and neither left a
\* version-info file
C23_Witness ==
    \E t1, t2 \in Threads :
        /\ threads[t1].memo = "spigot"
        /\ threads[t1].response = "404"
        /\ threads[t1].res.cause = "UnknownMinecraftVersion"
        /\ disk[<<"info", threads[t1].key>>] = "absent"
        /\ threads[t2].memo = "spigot"
        /\ threads[t2].response = "500"
        /\ threads[t2].res.cause = "curl::Error"
        /\ disk[<<"info", threads[t2].key>>] = "absent"


\* C24 (as stated, violated): a load of a version whose files were complete
\* on disk before this process wrote anything downloads nothing, fetches no
\* git data and writes no file, parses the files and, unless reading them
\* fails, publishes the result and returns it.
C24_WarmDiskNoFetch ==
    \A t \in Threads :
        LET d == FilesOf(t)
        IN  (/\ disk[d] = "complete"
             /\ io[d].writes = 0
             /\ threads[t].memo = "mcp" => FindVersion(threads[t].key)
             /\ threads[t].memo = "spigot" => threads[t].response = "none")
                => /\ io[d].fetches = 0
                   /\ threads[t].pc \notin {"create", "write", "dead"}
                   /\ threads[t].res.kind \in {"none", "ok", "err"}
                   /\ threads[t].res.kind = "ok" =>
                         /\ threads[t].res.val = ParsedValue("complete")
                         /\ Contains(heap[published[threads[t].memo]], threads[t].key)
                   /\ threads[t].res.kind = "err" =>
                         threads[t].res.cause \in {"parse", "fetch", "version info"}


\* C25 (as stated, violated): a load_mappings call for a version of the
\* version index, none of whose steps failed, returns the parsed dictionary
\* once it is over, and the MCP memo then holds the version.
C25_McpLoadPublishes ==
    \A t \in Threads :
        (/\ threads[t].memo = "mcp"
         /\ FindVersion(threads[t].key)
         /\ ~io[FilesOf(t)].failed
         /\ threads[t].pc \in {"idle", "dead"}
         /\ threads[t].res.kind # "none")
            => /\ threads[t].res.kind = "ok"
               /\ threads[t].res.val = ParsedValue("complete")
               /\ Contains(heap[published["mcp"]], threads[t].key)


\* C26 (as stated, violated): the chained mappings of every published
\* SpigotMappings are its class mappings chained with its member mappings,
\* with the packages transformed, whether the files were written by this
\* load or found on disk.
C26_ChainedIsClassChainMember ==
    spigot_entry.loaded =>
        spigot_entry.chained_mappings =
            SpigotChained(spigot_entry.class_mappings, spigot_entry.member_mappings)


(***************************************************************************)
(* Properties of LruCache (specification LruSpec).                         *)
(***************************************************************************)
\* C27 (as stated, violated): after capacity + 1 inserts of distinct keys
\* into an empty cache the first key is absent and the others are present
\* in insertion order; and an insert of a new key into a full cache removes
\* exactly the oldest entry and appends the new one.
C27_FifoEviction ==
    /\ (/\ lru_cache.start = <<>>
        /\ Len(lru_cache.log) = lru_cache.capacity + 1
        /\ \A i, j \in DOMAIN lru_cache.log :
              lru_cache.log[i] = lru_cache.log[j] => i = j)
          => /\ ~lru_cache.panicked
             /\ KeySeq(lru_cache.map) = Tail(lru_cache.log)
    /\ (/\ Len(lru_cache.log) >= 1
        /\ lru_cache.capacity >= 1
        /\ Len(lru_cache.before) = lru_cache.capacity
        /\ ~Contains(lru_cache.before, lru_cache.key))
          => /\ ~lru_cache.panicked
             /\ lru_cache.map =
                   Append(Tail(lru_cache.before), <<lru_cache.key, lru_cache.value>>)

\* C28: an insert for a key that was present does not panic, returns the
\* previous value and leaves a table with the same keys in the same order
\* and the same values, but for the key, which has the value inserted.
C28_ReplaceInPlace ==
    (Len(lru_cache.log) >= 1 /\ Contains(lru_cache.before, lru_cache.key)) =>
        /\ ~lru_cache.panicked
        /\ lru_cache.old = Get(lru_cache.before, lru_cache.key)
        /\ KeySeq(lru_cache.map) = KeySeq(lru_cache.before)
        /\ Get(lru_cache.map, lru_cache.key) = lru_cache.value
        /\ \A i \in DOMAIN lru_cache.before :
              lru_cache.before[i][1] # lru_cache.key
                  => lru_cache.map[i] = lru_cache.before[i]

\* C28 witness: a full cache of two entries had the value of its first key
\* replaced by another value
C28_Witness ==
    /\ Len(lru_cache.log) >= 1
    /\ Len(lru_cache.before) = 2
    /\ lru_cache.capacity = 2
    /\ lru_cache.before[1][1] = lru_cache.key
    /\ lru_cache.old # lru_cache.value
    /\ lru_cache.old # "None"
    /\ Get(lru_cache.map, lru_cache.key) = lru_cache.value

\* C29: a cache that insert has not made panic holds at most capacity
\* entries, after any sequence of inserts.
C29_AtMostCapacity ==
    ~lru_cache.panicked => Len(lru_cache.map) <= lru_cache.capacity

\* C29 witness: an insert of a new key into a full cache has returned
C29_Witness ==
    /\ Len(lru_cache.log) >= 1
    /\ ~lru_cache.panicked
    /\ lru_cache.capacity >= 1
    /\ Len(lru_cache.before) = lru_cache.capacity
    /\ ~Contains(lru_cache.before, lru_cache.key)

\* C30: a TargetMapping written with Display and read back with from_str is
\* the same TargetMapping; the text is the pair, then the filter if there is
\* one, then onlyobf if it is set, joined by single dashes, and so does not
\* end in a dash
C30_TargetStringRoundTrip ==
    LET t == target_text.target
        pair == Id(t.original) \o <<"2">> \o Id(t.renamed)
        filter == IF t.flags.filter = "none" THEN <<>> ELSE <<Text(t.flags.filter)>>
        only == IF t.flags.only_obf THEN <<Text("onlyobf")>> ELSE <<>>
    IN  /\ target_text.formatted =>
              /\ target_text.text = Dashed(<<pair>> \o filter \o only)
              /\ target_text.text[Len(target_text.text)] # "-"
        /\ target_text.formatted /\ target_text.parsed.done =>
              /\ target_text.parsed.ok
              /\ target_text.parsed.target = t

\* C30 witness: a target with a filter and onlyobf was written and read back
C30_Witness ==
    /\ target_text.formatted
    /\ target_text.parsed.done
    /\ target_text.target.flags.filter = "members"
    /\ target_text.target.flags.only_obf
    /\ target_text.target.original = "spigot"
    /\ Len(Split(target_text.text, "-")) = 3

\* Number of times the word is among the flags read
Count(flags, word) == Cardinality({i \in 1..Len(flags) : flags[i] = word})

\* C31: a flag text is accepted exactly when it is made of the three flags,
\* names at most one filter and names no flag twice, whatever their order; it
\* then yields the filter named and onlyobf if named, and is refused as
\* invalid flags otherwise.  TargetFlags::new panics on both filters and
\* yields the one asked for otherwise
C31_OneFilterEitherOrder ==
    LET flags == target_text.input
        valid == /\ Count(flags, "srg") = 0
                 /\ Count(flags, "classes") + Count(flags, "members") <= 1
                 /\ Count(flags, "onlyobf") <= 1
        filter == IF Count(flags, "classes") = 1 THEN "classes"
                  ELSE IF Count(flags, "members") = 1 THEN "members" ELSE "none"
        parsed == target_text.parsed
        built == target_text.built
    IN  /\ ~target_text.formatted /\ parsed.done =>
              /\ parsed.ok <=> valid
              /\ parsed.ok => parsed.target.flags =
                    [filter |-> filter, only_obf |-> Count(flags, "onlyobf") = 1]
              /\ ~parsed.ok => parsed.err = "Flags"
        /\ built.done =>
              /\ built.panicked <=> (flags[1] /\ flags[2])
              /\ ~built.panicked =>
                    /\ built.flags \in TargetFlags
                    /\ built.flags.only_obf = flags[3]
                    /\ (built.flags.filter = "classes") = flags[1]
                    /\ (built.flags.filter = "members") = flags[2]

\* C31 witness: "onlyobf-members" was accepted
C31_Witness ==
    /\ target_text.input = <<"onlyobf", "members">>
    /\ target_text.parsed.ok
    /\ target_text.parsed.target.flags = [filter |-> "members", only_obf |-> TRUE]

\* C32: a MinecraftVersion written with Display and read back with from_str
\* is the same version, and the text has the patch exactly when the patch is
\* not 0; a text read is accepted exactly when it is two or three
\* nonnegative integers in decimal digits joined by dots, the patch being 0
\* when there are two, and every other text is refused
C32_VersionStringRoundTrip ==
    LET v == version_text.version
        parts == version_text.input
        parsed == version_text.parsed
        valid == Len(parts) \in {2, 3} /\ \A i \in 1..Len(parts) : IsNumber(parts[i])
    IN  /\ version_text.formatted =>
              Split(version_text.text, ".") =
                  <<Decimal(v.major), Decimal(v.minor)>>
                    \o (IF v.patch = U32(0) THEN <<>> ELSE <<Decimal(v.patch)>>)
        /\ version_text.formatted /\ parsed.done =>
              parsed.ok /\ parsed.version = v
        /\ ~version_text.has_version /\ parsed.done =>
              /\ parsed.ok <=> valid
              /\ parsed.ok /\ Len(parts) = 2 => parsed.version.patch = U32(0)

\* C32, the part that holds: the round trip of every version, the patch
\* written exactly when it is not 0, and at most three parts accepted
C32_RoundTripOnly ==
    LET v == version_text.version
        parsed == version_text.parsed
    IN  /\ version_text.formatted =>
              Split(version_text.text, ".") =
                  <<Decimal(v.major), Decimal(v.minor)>>
                    \o (IF v.patch = U32(0) THEN <<>> ELSE <<Decimal(v.patch)>>)
        /\ version_text.formatted /\ parsed.done =>
              parsed.ok /\ parsed.version = v
        /\ ~version_text.has_version /\ parsed.ok =>
              Len(version_text.input) \in {2, 3}

\* C33: an McpVersionSpec written with Display and read back with from_str
\* is the same spec, for both channels; the text is the lower-case channel,
\* "_nodoc" if nodoc, "_" and the revision; the URL and the directory of the
\* version name the channel in the same lower case
C33_McpSpecRoundTrip ==
    LET spec == mcp_spec_text.spec
        channel == ChannelFmt_LowerCase(spec.version.channel)
        value == Decimal(spec.version.value)
        name == McpText("mcp_") \o channel \o McpText("_nodoc")
    IN  /\ mcp_spec_text.formatted =>
              mcp_spec_text.text =
                  channel \o (IF spec.nodoc THEN McpText("_nodoc") ELSE <<>>)
                    \o <<"_">> \o value
        /\ mcp_spec_text.formatted /\ mcp_spec_text.parsed.done =>
              mcp_spec_text.parsed.ok /\ mcp_spec_text.parsed.spec = spec
        /\ mcp_spec_text.url # <<>> =>
              /\ mcp_spec_text.directory = channel \o McpText("_nodoc") \o <<"_">> \o value
              /\ SubSeq(mcp_spec_text.url, 2, 1 + Len(name)) = name

\* C33, the part that holds: the same for the Snapshot channel alone
C33_SnapshotRoundTrip ==
    mcp_spec_text.spec.version.channel = "Snapshot" => C33_McpSpecRoundTrip

\* The classes a Mappings mentions: renamed classes, declaring classes and
\* the classes of the signatures
Mentioned(m) ==
    {m.classes[i][1] : i \in DOMAIN m.classes}
      \cup {m.fields[i][1].cls : i \in DOMAIN m.fields}
      \cup {m.methods[i][1].cls : i \in DOMAIN m.methods}
      \cup UNION {{m.methods[i][1].sig[k] : k \in DOMAIN m.methods[i][1].sig} :
                    i \in DOMAIN m.methods}

\* No two classes the Mappings mentions have the same renamed class, a
\* class without an entry being renamed to itself
ClassInjective(m) ==
    \A c, d \in Mentioned(m) : RemapClass(m, c) = RemapClass(m, d) => c = d

\* The class table has an entry for every class the Mappings mentions
Declared(m) == \A c \in Mentioned(m) : HasClass(m, c)

\* b has an entry for the renamed side of every entry of a
Covers(a, b) ==
    /\ \A i \in DOMAIN a.classes : HasClass(b, a.classes[i][2])
    /\ \A i \in DOMAIN a.fields : HasField(b, RenamedField(a, a.fields[i]))
    /\ \A i \in DOMAIN a.methods : HasMethod(b, RenamedMethod(a, a.methods[i]))

C35_ChainAssociative ==
    algebra.op = "chain" /\ algebra.done => algebra.left = algebra.right

\* C35 amended: they give the same Mappings when B has an entry for the
\* renamed side of every entry of A and the class table of A has an entry
\* for every class A mentions
C35_ChainAssociativeCovered ==
    algebra.op = "chain" /\ algebra.done
        /\ Covers(algebra.a, algebra.b) /\ Declared(algebra.a) =>
            algebra.left = algebra.right

\* C35 witness: three Mappings that each rename the field the one before
\* renamed were chained
C35_Witness ==
    /\ algebra.op = "chain"
    /\ algebra.done
    /\ Covers(algebra.a, algebra.b)
    /\ Declared(algebra.a)
    /\ algebra.a.fields # <<>>
    /\ algebra.a.classes # <<>>
    /\ algebra.a.classes[1][1] # algebra.a.classes[1][2]
    /\ algebra.b.classes # <<>>
    /\ algebra.b.classes[1][1] # algebra.b.classes[1][2]
    /\ HasField(algebra.c, RenamedField(algebra.b, algebra.b.fields[1]))
    /\ algebra.left.fields[1][2] # algebra.a.fields[1][2]
    /\ algebra.left.fields[1][2] # algebra.b.fields[1][2]

\* C37: no insert into a cache of capacity 1 or more that was created empty
\* fails an assertion
C37_AssertionsHold ==
    (lru_cache.start = <<>> /\ lru_cache.capacity >= 1) => ~lru_cache.panicked

\* C38: a version of the SRG or the Spigot memo that is in the published
\* snapshot is in the snapshot published by any step, with the same value
C38_NoLostUpdate ==
    [][\A memo \in {"srg", "spigot"} : \A key \in GameVersions :
          Contains(heap[published[memo]], key) =>
              /\ Contains(heap'[published'[memo]], key)
              /\ Get(heap'[published'[memo]], key) = Get(heap[published[memo]], key)
      ]_vars

\* C38 witness: two threads each loaded another version into the SRG memo
\* through the slow path, and the published snapshot holds both
C38_Witness ==
    \E t1, t2 \in Threads :
        /\ t1 # t2
        /\ \A t \in {t1, t2} :
              /\ threads[t].memo = "srg"
              /\ threads[t].pc = "idle"
              /\ threads[t].res.kind = "ok"
              /\ ~threads[t].res.fast
              /\ ~threads[t].res.rechecked
        /\ threads[t1].key # threads[t2].key
        /\ \A key \in GameVersions : Contains(heap[published["srg"]], key)

(***************************************************************************)
(* The cache under fair scheduling.  Every HTTP, git and file operation    *)
(* returns, so a step of a call that can be taken is taken; lock() is      *)
(* granted to a thread that finds the mutex free again and again.          *)
(***************************************************************************)

\* The steps of the load call of thread t after its first lookup
LoadStep(t) ==
    \/ Lookup(t)
    \/ Recheck(t)
    \/ VersionInfo(t)
    \/ Fetch(t)
    \/ Create(t)
    \/ Write(t)
    \/ Parse(t)
    \/ Publish(t)
    \/ ReturnOk(t)

CacheFairSpec ==
    /\ CacheSpec
    /\ \A t \in Threads : WF_vars(LoadStep(t)) /\ SF_vars(Acquire(t))

\* C39 (as stated, violated): every load call that has begun returns, with
\* the mutex of its cache free of the caller, and a thread about to lock the
\* mutex of a cache does not hold it
C39_LoadsReturnLockFree ==
    /\ \A t \in Threads :
          (threads[t].pc # "idle") ~>
              (/\ threads[t].pc = "idle"
               /\ threads[t].res.kind \in {"ok", "err"}
               /\ lock[LockOf(threads[t].memo)] # t)
    /\ [](\A t \in Threads :
             threads[t].pc = "fallback" => \A l \in Locks : lock[l] # t)

\* The parts of C39 the code meets: no thread locks a mutex it holds, a
\* thread outside the slow path holds no mutex, and every call that has begun
\* comes to an end, by a return or by the panic of LruCache::insert
C39_NoSelfDeadlock ==
    /\ \A t \in Threads :
          (threads[t].pc # "idle") ~> (threads[t].pc \in {"idle", "dead"})
    /\ [](\A t \in Threads : \A l \in Locks :
             threads[t].pc \notin SlowPath => lock[l] # t)

\* C40: a call of compute_target keeps every entry of the memo with its
\* value; an entry it adds is for a target the call asked for whose
\* computation, flags applied, succeeds, and holds that result; after a
\* failed call the memo has no entry for the target nor for any target of
\* the error chain, it has one for every other target the call asked for,
\* and a further call on that memo again keeps every entry and adds none for
\* a target it fails on.
C40_MemoOnlyGrows ==
    [][LET before == computed_targets
           after == computed_targets'
           Kept(old, new) ==
               \A T \in Originals(old) :
                   Contains(new, T) /\ Get(new, T) = Get(old, T)
       IN  /\ Kept(before, after)
           /\ \A T \in Originals(after) \ Originals(before) :
                 /\ T \in Range(last'.requested)
                 /\ Fresh(T).kind = "ok"
                 /\ Get(after, T) = Fresh(T).val
           /\ last'.kind = "err" =>
                 /\ ~Contains(after, last'.target)
                 /\ \A T \in Range(last'.err.targets) : ~Contains(after, T)
                 /\ \A T \in Range(last'.requested) \ Range(last'.err.targets) :
                       Contains(after, T)
                 /\ \A T \in TargetMapping :
                       LET r == ComputeTarget(T, NewEngine(after), <<>>)
                       IN  /\ Kept(after, r.st.memo)
                           /\ r.kind = "err" => ~Contains(r.st.memo, T)
      ]_vars

\* C40 witness: spigot2mcp failed in the load of the MCP data, after
\* spigot2obf, obf2spigot and obf2srg were computed: these three are in the
\* memo, spigot2mcp, obf2mcp and srg2mcp are not
C40_Witness ==
    /\ last.kind = "err"
    /\ last.target = SPIGOT2MCP
    /\ Originals(computed_targets) = {SPIGOT2OBF, OBF2SPIGOT, OBF2SRG}
    /\ Range(last.err.targets) = {SPIGOT2MCP, OBF2MCP, SRG2MCP}

\* C40 witness of growth: a later call on the same engine added entries to a
\* memo that already held others
C40_WitnessGrowth ==
    /\ calls >= 2
    /\ last.kind = "ok"
    /\ ~last.hit
    /\ Len(computed_targets) > Len(last.requested)

====
